---- MODULE Spec2Model ----
(***************************************************************************)
(* Model of libjtag: the TAP state machine (jtag_state_machine.rs), the    *)
(* JTAG core and the TAP handle (jtag.rs), the adapter trait's default     *)
(* methods (interface.rs) and the JTAG-DP access layer (dap.rs).           *)
(***************************************************************************)
EXTENDS Integers, Sequences, FiniteSets, TLC

VARIABLES
    state,      \* Jtag.state_machine: the tracked TAP state
    chain,      \* the TAP state of the devices on the scan chain
    out,        \* adapter entries clocked (one TCK cycle each), in order
    calls,      \* change_state requests made, in order
    buf,        \* the caller's bit buffer after the operation
    panicked,   \* the operation trapped (panic!/unwrap)
    op,         \* the operation performed last, with its inputs
    lock,       \* the spin Mutex around the Jtag core: 0 free, else the holder
    pc,         \* where each TAP handle's owner is
    loc,        \* the locals of each TAP handle's call in flight
    ir_len,     \* TAP.ir_len of each handle
    dev,        \* the debug port on the scan chain: what it answers to scans
    scans,      \* the DR scans of the debug port made, in order
    daplock     \* the spin Mutex around the DAP: 0 free, else the holder

tapvars == <<lock, pc, loc, ir_len>>

portvars == <<dev, scans, daplock>>

vars == <<state, chain, out, calls, buf, panicked, op, lock, pc, loc, ir_len,
          dev, scans, daplock>>

\* Longest TMS sequence handed to Jtag::write_tms by a direct caller.
MaxTms == 5
\* Longest bit buffer handed to the data operations of the JTAG core.
MaxLen == 2
\* Number of TAP handles sharing one JTAG core.
NumHandles == 2
\* Longest bit buffer handed to TAP::read_write_dr by a handle's owner.
MaxTapLen == 1

Handles == 1..NumHandles

\* The ir_len the example programs give their TAP handle.
ExampleIrLen == 4

BoolSeqs(n) == UNION {[1..k -> BOOLEAN] : k \in 0..n}

Reverse(s) == [i \in 1..Len(s) |-> s[Len(s) + 1 - i]]

JtagState ==
    {"Reset", "RunIdle", "SelectDRScan", "CaptureDR", "ShiftDR", "Exit1DR",
     "PauseDR", "Exit2DR", "UpdateDR", "SelectIRScan", "CaptureIR", "ShiftIR",
     "Exit1IR", "PauseIR", "Exit2IR", "UpdateIR"}

INITIAL_STATE == "Reset"

\* JtagStateMachine::transition with one arm changed: UpdateDR on TMS=1 stays
\* in UpdateDR.
transition_stuck(s, input) ==
    CASE s = "Reset"        -> IF input THEN "Reset" ELSE "RunIdle"
      [] s = "RunIdle"      -> IF input THEN "SelectDRScan" ELSE "RunIdle"
      [] s = "SelectDRScan" -> IF input THEN "SelectIRScan" ELSE "CaptureDR"
      [] s = "CaptureDR"    -> IF input THEN "Exit1DR" ELSE "ShiftDR"
      [] s = "ShiftDR"      -> IF input THEN "Exit1DR" ELSE "ShiftDR"
      [] s = "Exit1DR"      -> IF input THEN "UpdateDR" ELSE "PauseDR"
      [] s = "PauseDR"      -> IF input THEN "Exit2DR" ELSE "PauseDR"
      [] s = "Exit2DR"      -> IF input THEN "UpdateDR" ELSE "ShiftDR"
      [] s = "UpdateDR"     -> IF input THEN "UpdateDR" ELSE "RunIdle"
      [] s = "SelectIRScan" -> IF input THEN "Reset" ELSE "CaptureIR"
      [] s = "CaptureIR"    -> IF input THEN "Exit1IR" ELSE "ShiftIR"
      [] s = "ShiftIR"      -> IF input THEN "Exit1IR" ELSE "ShiftIR"
      [] s = "Exit1IR"      -> IF input THEN "UpdateIR" ELSE "PauseIR"
      [] s = "PauseIR"      -> IF input THEN "Exit2IR" ELSE "PauseIR"
      [] s = "Exit2IR"      -> IF input THEN "UpdateIR" ELSE "ShiftIR"
      [] s = "UpdateIR"     -> IF input THEN "SelectIRScan" ELSE "RunIdle"

\* JtagStateMachine::transition, arm by arm.
transition(s, input) ==
    CASE s = "Reset"        -> IF input THEN "Reset" ELSE "RunIdle"
      [] s = "RunIdle"      -> IF input THEN "SelectDRScan" ELSE "RunIdle"
      [] s = "SelectDRScan" -> IF input THEN "SelectIRScan" ELSE "CaptureDR"
      [] s = "CaptureDR"    -> IF input THEN "Exit1DR" ELSE "ShiftDR"
      [] s = "ShiftDR"      -> IF input THEN "Exit1DR" ELSE "ShiftDR"
      [] s = "Exit1DR"      -> IF input THEN "UpdateDR" ELSE "PauseDR"
      [] s = "PauseDR"      -> IF input THEN "Exit2DR" ELSE "PauseDR"
      [] s = "Exit2DR"      -> IF input THEN "UpdateDR" ELSE "ShiftDR"
      [] s = "UpdateDR"     -> IF input THEN "SelectDRScan" ELSE "RunIdle"
      [] s = "SelectIRScan" -> IF input THEN "Reset" ELSE "CaptureIR"
      [] s = "CaptureIR"    -> IF input THEN "Exit1IR" ELSE "ShiftIR"
      [] s = "ShiftIR"      -> IF input THEN "Exit1IR" ELSE "ShiftIR"
      [] s = "Exit1IR"      -> IF input THEN "UpdateIR" ELSE "PauseIR"
      [] s = "PauseIR"      -> IF input THEN "Exit2IR" ELSE "PauseIR"
      [] s = "Exit2IR"      -> IF input THEN "UpdateIR" ELSE "ShiftIR"
      [] s = "UpdateIR"     -> IF input THEN "SelectIRScan" ELSE "RunIdle"

\* StateMachine::consume applied to each bit of a sequence in turn.
RECURSIVE consume_all(_, _)
consume_all(s, bits) ==
    IF bits = <<>> THEN s
    ELSE consume_all(transition(s, Head(bits)), Tail(bits))

\* The TAP controller of the devices on the chain: the IEEE 1149.1 diagram.
TapNext(s, tms) ==
    CASE s = "Reset"        -> IF tms THEN "Reset" ELSE "RunIdle"
      [] s = "RunIdle"      -> IF tms THEN "SelectDRScan" ELSE "RunIdle"
      [] s = "SelectDRScan" -> IF tms THEN "SelectIRScan" ELSE "CaptureDR"
      [] s = "CaptureDR"    -> IF tms THEN "Exit1DR" ELSE "ShiftDR"
      [] s = "ShiftDR"      -> IF tms THEN "Exit1DR" ELSE "ShiftDR"
      [] s = "Exit1DR"      -> IF tms THEN "UpdateDR" ELSE "PauseDR"
      [] s = "PauseDR"      -> IF tms THEN "Exit2DR" ELSE "PauseDR"
      [] s = "Exit2DR"      -> IF tms THEN "UpdateDR" ELSE "ShiftDR"
      [] s = "UpdateDR"     -> IF tms THEN "SelectDRScan" ELSE "RunIdle"
      [] s = "SelectIRScan" -> IF tms THEN "Reset" ELSE "CaptureIR"
      [] s = "CaptureIR"    -> IF tms THEN "Exit1IR" ELSE "ShiftIR"
      [] s = "ShiftIR"      -> IF tms THEN "Exit1IR" ELSE "ShiftIR"
      [] s = "Exit1IR"      -> IF tms THEN "UpdateIR" ELSE "PauseIR"
      [] s = "PauseIR"      -> IF tms THEN "Exit2IR" ELSE "PauseIR"
      [] s = "Exit2IR"      -> IF tms THEN "UpdateIR" ELSE "ShiftIR"
      [] s = "UpdateIR"     -> IF tms THEN "SelectDRScan" ELSE "RunIdle"

\* The controller after the TMS levels bits[lo..hi], taken in order: those
\* of the first half, then from the state reached those of the second.
RECURSIVE TapRunIn(_, _, _, _)
TapRunIn(s, bits, lo, hi) ==
    IF lo > hi THEN s
    ELSE IF lo = hi THEN TapNext(s, bits[lo])
    ELSE CHOOSE r \in { TapRunIn(t, bits, (lo + hi) \div 2 + 1, hi) :
                          t \in {TapRunIn(s, bits, lo, (lo + hi) \div 2)} } : TRUE

TapRun(s, bits) == TapRunIn(s, bits, 1, Len(bits))

TmsOf(entries) == [i \in 1..Len(entries) |-> entries[i].tms]
TdiOf(entries) == [i \in 1..Len(entries) |-> entries[i].tdi]

(***************************************************************************)
(* A call context j: the fields of the Jtag object and of the adapter that *)
(* a method reads and writes.                                              *)
(*   state, chain, out, calls, buf as the variables; panic: the call       *)
(*   trapped; depth: nesting of change_state; by: the caller; held: the    *)
(*   caller holds the core (owns it, or holds its lock); ret: the value    *)
(*   the call returns, if any; ir_len: that of the TAP handle used; dev    *)
(*   and scans as the variables.                                           *)
(***************************************************************************)

\* x is computed, then F is applied to its value: the sequencing of two
\* statements, the second of which uses the result of the first.
Run(x, F(_)) == CHOOSE r \in { F(v) : v \in {x} } : TRUE

\* JtagInterface::raw_write / raw_read: one TCK cycle per entry, in order.
\* kind is the trait method that built the entries; tdo is the level sampled
\* on each cycle (kept by raw_read only).
RawClock(j0, data0, kind, tdo) ==
    Run(j0, LAMBDA j : Run(data0, LAMBDA data :
    [j EXCEPT
        !.out = @ \o [i \in 1..Len(data) |->
                        [tms   |-> data[i].tms,
                         tdi   |-> data[i].tdi,
                         tdo   |-> tdo[i],
                         kind  |-> kind,
                         st    |-> j.state,
                         chain |-> TapRun(j.chain, TmsOf(SubSeq(data, 1, i - 1))),
                         by    |-> j.by,
                         held  |-> j.held]],
        !.chain = TapRun(@, TmsOf(data))]))

NoTdo(n) == [i \in 1..n |-> FALSE]

\* JtagInterface::write_tms (default method).
If_write_tms(j, tms) ==
    RawClock(j, [i \in 1..Len(tms) |-> [tms |-> tms[i], tdi |-> FALSE]],
             "tms", NoTdo(Len(tms)))

\* The entries write_data and read_data build from a bit buffer.
DataEntries(bits, exit) ==
    [i \in 1..Len(bits) |-> [tms |-> exit /\ i = Len(bits), tdi |-> bits[i]]]

\* JtagInterface::write_data (default method); last_mut().unwrap() traps on
\* an empty buffer.
If_write_data(j, tdi, exit) ==
    IF exit /\ tdi = <<>> THEN [j EXCEPT !.panic = TRUE]
    ELSE RawClock(j, DataEntries(tdi, exit), "write", NoTdo(Len(tdi)))

\* JtagInterface::read_data (default method): the buffer j.buf is clocked out
\* on TDI and overwritten with the TDO samples.
If_read_data(j0, exit, tdo) ==
    Run(j0, LAMBDA j :
    IF exit /\ j.buf = <<>> THEN [j EXCEPT !.panic = TRUE]
    ELSE [RawClock(j, DataEntries(j.buf, exit), "read", tdo) EXCEPT !.buf = tdo])

\* Jtag::write_tms
write_tms(j, tms) ==
    [If_write_tms(j, tms) EXCEPT !.state = consume_all(@, tms)]

\* Jtag::raw_write_data
raw_write_data(j, tdi, exit) ==
    Run(If_write_data(j, tdi, exit), LAMBDA k :
        IF k.panic \/ ~exit THEN k
        ELSE [k EXCEPT !.state = transition(@, TRUE)])

\* Jtag::raw_read_data
raw_read_data(j, exit, tdo) ==
    Run(If_read_data(j, exit, tdo), LAMBDA k :
        IF k.panic \/ ~exit THEN k
        ELSE [k EXCEPT !.state = transition(@, TRUE)])

\* An arm of change_state that writes TMS bits.
W(tms) == [kind |-> "write", tms |-> tms]

\* change_state's first arm with one bit missing.
ResetSeq_short == <<TRUE, TRUE, TRUE, TRUE>>

\* The [true; 5] of change_state's (_, Reset) arm.
ResetSeq == <<TRUE, TRUE, TRUE, TRUE, TRUE>>

\* The match of Jtag::change_state with the Capture -> RunIdle arm one bit
\* short.
ChangeStateArm_short(from, to) ==
    IF to = "Reset" THEN W(ResetSeq)
    ELSE IF from = "Reset" /\ to = "RunIdle" THEN W(<<FALSE>>)
    ELSE IF from = "Reset" THEN [kind |-> "recurse", tms |-> <<>>]
    ELSE IF to = "RunIdle" THEN
        CASE from = "RunIdle"                        -> W(<<FALSE>>)
          [] from \in {"SelectDRScan", "SelectIRScan"} -> W(<<FALSE, TRUE, TRUE, FALSE>>)
          [] from \in {"CaptureDR", "CaptureIR"}       -> W(<<TRUE, FALSE>>)
          [] from \in {"ShiftDR", "ShiftIR"}           -> W(<<TRUE, TRUE, FALSE>>)
          [] from \in {"Exit1DR", "Exit1IR"}           -> W(<<TRUE, FALSE>>)
          [] from \in {"PauseDR", "PauseIR"}           -> W(<<TRUE, TRUE, FALSE>>)
          [] from \in {"Exit2DR", "Exit2IR"}           -> W(<<TRUE, FALSE>>)
          [] from \in {"UpdateDR", "UpdateIR"}         -> W(<<FALSE>>)
    ELSE IF from = "RunIdle" /\ to = "CaptureDR" THEN W(<<TRUE, FALSE>>)
    ELSE IF from = "RunIdle" /\ to = "ShiftDR" THEN W(<<TRUE, FALSE, FALSE>>)
    ELSE IF from = "Exit1DR" /\ to = "UpdateDR" THEN W(<<TRUE>>)
    ELSE IF from = "RunIdle" /\ to = "CaptureIR" THEN W(<<TRUE, TRUE, FALSE>>)
    ELSE IF from = "RunIdle" /\ to = "ShiftIR" THEN W(<<TRUE, TRUE, FALSE, FALSE>>)
    ELSE IF from = "Exit1IR" /\ to = "UpdateIR" THEN W(<<TRUE>>)
    ELSE [kind |-> "panic", tms |-> <<>>]

\* The match of Jtag::change_state with an arm for Exit2DR -> UpdateDR added.
ChangeStateArm_exit2(from, to) ==
    IF to = "Reset" THEN W(ResetSeq)
    ELSE IF from = "Reset" /\ to = "RunIdle" THEN W(<<FALSE>>)
    ELSE IF from = "Reset" THEN [kind |-> "recurse", tms |-> <<>>]
    ELSE IF to = "RunIdle" THEN
        CASE from = "RunIdle"                        -> W(<<FALSE>>)
          [] from \in {"SelectDRScan", "SelectIRScan"} -> W(<<FALSE, TRUE, TRUE, FALSE>>)
          [] from \in {"CaptureDR", "CaptureIR"}       -> W(<<TRUE, TRUE, FALSE>>)
          [] from \in {"ShiftDR", "ShiftIR"}           -> W(<<TRUE, TRUE, FALSE>>)
          [] from \in {"Exit1DR", "Exit1IR"}           -> W(<<TRUE, FALSE>>)
          [] from \in {"PauseDR", "PauseIR"}           -> W(<<TRUE, TRUE, FALSE>>)
          [] from \in {"Exit2DR", "Exit2IR"}           -> W(<<TRUE, FALSE>>)
          [] from \in {"UpdateDR", "UpdateIR"}         -> W(<<FALSE>>)
    ELSE IF from = "RunIdle" /\ to = "CaptureDR" THEN W(<<TRUE, FALSE>>)
    ELSE IF from = "RunIdle" /\ to = "ShiftDR" THEN W(<<TRUE, FALSE, FALSE>>)
    ELSE IF from = "Exit1DR" /\ to = "UpdateDR" THEN W(<<TRUE>>)
    ELSE IF from = "RunIdle" /\ to = "CaptureIR" THEN W(<<TRUE, TRUE, FALSE>>)
    ELSE IF from = "RunIdle" /\ to = "ShiftIR" THEN W(<<TRUE, TRUE, FALSE, FALSE>>)
    ELSE IF from = "Exit1IR" /\ to = "UpdateIR" THEN W(<<TRUE>>)
    ELSE IF from = "Exit2DR" /\ to = "UpdateDR" THEN W(<<TRUE>>)
    ELSE [kind |-> "panic", tms |-> <<>>]

\* The match of Jtag::change_state, arms in source order: the TMS bits the arm
\* writes, kind "recurse" for the (Reset, _) arm, "panic" for the (_, _) arm.
ChangeStateArm(from, to) ==
    IF to = "Reset" THEN W(ResetSeq)
    ELSE IF from = "Reset" /\ to = "RunIdle" THEN W(<<FALSE>>)
    ELSE IF from = "Reset" THEN [kind |-> "recurse", tms |-> <<>>]
    ELSE IF to = "RunIdle" THEN
        CASE from = "RunIdle"                        -> W(<<FALSE>>)
          [] from \in {"SelectDRScan", "SelectIRScan"} -> W(<<FALSE, TRUE, TRUE, FALSE>>)
          [] from \in {"CaptureDR", "CaptureIR"}       -> W(<<TRUE, TRUE, FALSE>>)
          [] from \in {"ShiftDR", "ShiftIR"}           -> W(<<TRUE, TRUE, FALSE>>)
          [] from \in {"Exit1DR", "Exit1IR"}           -> W(<<TRUE, FALSE>>)
          [] from \in {"PauseDR", "PauseIR"}           -> W(<<TRUE, TRUE, FALSE>>)
          [] from \in {"Exit2DR", "Exit2IR"}           -> W(<<TRUE, FALSE>>)
          [] from \in {"UpdateDR", "UpdateIR"}         -> W(<<FALSE>>)
    ELSE IF from = "RunIdle" /\ to = "CaptureDR" THEN W(<<TRUE, FALSE>>)
    ELSE IF from = "RunIdle" /\ to = "ShiftDR" THEN W(<<TRUE, FALSE, FALSE>>)
    ELSE IF from = "Exit1DR" /\ to = "UpdateDR" THEN W(<<TRUE>>)
    ELSE IF from = "RunIdle" /\ to = "CaptureIR" THEN W(<<TRUE, TRUE, FALSE>>)
    ELSE IF from = "RunIdle" /\ to = "ShiftIR" THEN W(<<TRUE, TRUE, FALSE, FALSE>>)
    ELSE IF from = "Exit1IR" /\ to = "UpdateIR" THEN W(<<TRUE>>)
    ELSE [kind |-> "panic", tms |-> <<>>]

\* The test of change_state's early return extended to Reset.
NoChange_any(from, to) == from = to

\* (*from == to) && to != JS::Reset
NoChange(from, to) == from = to /\ to # "Reset"

\* Jtag::change_state. Every call is logged in j.calls with the tracked state
\* it found, its nesting depth and the number of entries clocked before it.
RECURSIVE change_state(_, _)
change_state(j0, to) ==
    Run(j0, LAMBDA j :
    IF j.panic THEN j
    ELSE
    LET from == j.state
        k    == [j EXCEPT !.calls = Append(@, [from |-> from, to |-> to,
                                               depth |-> j.depth,
                                               at |-> Len(j.out)])]
        arm  == ChangeStateArm(from, to)
    IN  IF NoChange(from, to) THEN k
        ELSE IF arm.kind = "panic" THEN [k EXCEPT !.panic = TRUE]
        ELSE IF arm.kind = "recurse" THEN
            [change_state(change_state([k EXCEPT !.depth = @ + 1], "RunIdle"),
                          to)
                EXCEPT !.depth = j.depth]
        ELSE write_tms(k, arm.tms))

\* The states in which write_ir skips its first change_state, one missing.
IrDirect_narrow == {"Reset", "RunIdle"}

\* The states in which write_ir does not first go to RunIdle.
IrDirect == {"Reset", "RunIdle", "ShiftIR"}

\* Jtag::write_ir up to the shift: to RunIdle unless direct, then to ShiftIR.
write_ir_move(j0) ==
    Run(j0, LAMBDA j :
        change_state(IF j.state \in IrDirect THEN j
                     ELSE change_state(j, "RunIdle"),
                     "ShiftIR"))

\* Jtag::write_ir, the shift: the buffer is reversed, written, reversed back.
write_ir_shift(j0, ir_bitstream, exit, reverse) ==
    LET r == IF reverse THEN Reverse(ir_bitstream) ELSE ir_bitstream
    IN  Run(j0, LAMBDA j :
        Run(IF j.panic THEN j ELSE raw_write_data([j EXCEPT !.buf = r], r, exit),
            LAMBDA c :
                IF c.panic THEN c
                ELSE [c EXCEPT !.buf = IF reverse THEN Reverse(r) ELSE r]))

\* Jtag::write_ir after the shift: back to RunIdle.
write_ir_return(j) == change_state(j, "RunIdle")

\* Jtag::write_ir
write_ir(j, ir_bitstream, exit, reverse) ==
    write_ir_return(write_ir_shift(write_ir_move(j), ir_bitstream, exit, reverse))

\* The states in which read_write_dr does not first go to RunIdle.
DrDirect == {"Reset", "RunIdle", "ShiftDR"}

\* Jtag::read_write_dr up to the shift.
read_write_dr_move(j0) ==
    Run(j0, LAMBDA j :
        change_state(IF j.state \in DrDirect THEN j
                     ELSE change_state(j, "RunIdle"),
                     "ShiftDR"))

\* Jtag::read_write_dr, the shift; tdo is the level the chain drives on each
\* of the Len(data) clocks.
read_write_dr_shift(j0, data, exit, reverse_input, reverse_output, tdo) ==
    LET r == IF reverse_input THEN Reverse(data) ELSE data
    IN  Run(j0, LAMBDA j :
        Run(IF j.panic THEN j ELSE raw_read_data([j EXCEPT !.buf = r], exit, tdo),
            LAMBDA c :
                IF c.panic THEN c
                ELSE [c EXCEPT !.buf = IF reverse_output THEN Reverse(@) ELSE @]))

\* Jtag::read_write_dr after the shift: back to RunIdle.
read_write_dr_return(j) == change_state(j, "RunIdle")

\* Jtag::read_write_dr
read_write_dr(j, data, exit, reverse_input, reverse_output, tdo) ==
    read_write_dr_return(
        read_write_dr_shift(read_write_dr_move(j), data, exit,
                            reverse_input, reverse_output, tdo))

(***************************************************************************)
(* The TAP handle (struct TAP): ir_len and a reference to the locked core  *)
(***************************************************************************)

\* The n low bits of tmp without the shift between them: bit 0 every time.
lsb_first_noshift(tmp, n) == [i \in 1..n |-> (tmp % 2) = 1]

\* The loop `x[i] = (tmp & 1) != 0; tmp = tmp >> 1` run n times: element i
\* (from 1) is bit i - 1 of tmp.
lsb_first(tmp, n) == [i \in 1..n |-> ((tmp \div (2 ^ (i - 1))) % 2) = 1]

\* The length of the ir array of TAP::write_instruction.
MaxIrLen == 8

\* TAP::write_instruction between lock and unlock; indexing the 8-element
\* array beyond its end traps before the lock is taken.
tap_write_instruction(j, instruction, n) ==
    IF n > MaxIrLen THEN [j EXCEPT !.panic = TRUE]
    ELSE write_ir(j, lsb_first(instruction, n), TRUE, FALSE)

\* TAP::read_write_dr between lock and unlock.
tap_read_write_dr(j, data, exit, reverse_input, reverse_output, tdo) ==
    read_write_dr(j, data, exit, reverse_input, reverse_output, tdo)

\* Drop for TAP between lock and the end of the scope.
tap_drop(j) == change_state(j, "Reset")

(***************************************************************************)
(* The debug access port over a TAP handle (dap.rs)                        *)
(***************************************************************************)

\* Instruction
ABORT == 8
DPACC == 10
APACC == 11
IDCODE == 14
BYPASS == 15

\* A u32, kept as its two 16-bit halves.
U32(hi, lo) == [hi |-> hi, lo |-> lo]

\* The loop `x[i] = (tmp & 1) != 0; tmp = tmp >> 1` run over the 32 bits of
\* a u32.
u32_lsb_first(w) == lsb_first(w.lo, 16) \o lsb_first(w.hi, 16)

\* The scan buffer of acc with the two address bits in the other order.
acc_bits_swapped(data, a, RnW) ==
    <<RnW, ((a \div 2) % 2) = 1, (a % 2) = 1>> \o u32_lsb_first(data)

\* The scan buffer acc builds: RnW, a & 1, a & 0b10, then the 32 data bits
\* from bit 0 up.
acc_bits(data, a, RnW) ==
    <<RnW, (a % 2) = 1, ((a \div 2) % 2) = 1>> \o u32_lsb_first(data)

\* iter().fold(0, |x, y| (x << 1) | y) over bits[lo..hi], in an integer of
\* modulus m: the fold over the first half, then from its result the fold
\* over the second.
RECURSIVE fold_shl_in(_, _, _, _, _)
fold_shl_in(x, bits, lo, hi, m) ==
    IF lo > hi THEN x
    ELSE IF lo = hi THEN (2 * x + (IF bits[lo] THEN 1 ELSE 0)) % m
    ELSE CHOOSE r \in { fold_shl_in(t, bits, (lo + hi) \div 2 + 1, hi, m) :
                          t \in {fold_shl_in(x, bits, lo, (lo + hi) \div 2, m)} } :
             TRUE

\* iter().fold(0, |x, y| (x << 1) | y) over bits, in an integer of
\* modulus m.
fold_shl(x, bits, m) == fold_shl_in(x, bits, 1, Len(bits), m)

\* The fold over 32 bits with the two halves of the result exchanged.
u32_fold_swapped(bits) ==
    U32(fold_shl(0, SubSeq(bits, 17, 32), 65536),
        fold_shl(0, SubSeq(bits, 1, 16), 65536))

\* The fold over 32 bits into a u32: the first 16 make the high half.
u32_fold(bits) ==
    U32(fold_shl(0, SubSeq(bits, 1, 16), 65536),
        fold_shl(0, SubSeq(bits, 17, 32), 65536))

\* TAP::acc: one scan of the buffer with exit and without reversal; the
\* acknowledgement is folded from the first three captured bits, the result
\* from the first 32 of the reversed buffer.
acc(j, data, a, RnW, tdo) ==
    Run(tap_read_write_dr(j, acc_bits(data, a, RnW), TRUE, FALSE, FALSE, tdo),
        LAMBDA r :
            IF r.panic THEN r
            ELSE [r EXCEPT !.ret = <<fold_shl(0, SubSeq(r.buf, 1, 3), 256),
                                     u32_fold(SubSeq(Reverse(r.buf), 1, 32))>>])

\* TAP::dpacc
dpacc(j, data, a, RnW, n, tdo) ==
    acc(tap_write_instruction(j, DPACC, n), data, a, RnW, tdo)

\* TAP::apacc
apacc(j, data, a, RnW, n, tdo) ==
    acc(tap_write_instruction(j, APACC, n), data, a, RnW, tdo)

(***************************************************************************)
(* The debug port as the DAP layer sees it (dap.rs, struct DAP and the     *)
(* traits DebugPort and MemoryAccessPort)                                  *)
(***************************************************************************)

\* DpAddress
DpAddress == [PDIDR_ABORT |-> 0, CTRLSTAT |-> 1, SELECT |-> 2, RDBUFF |-> 3]

\* MemapAddress
MemapAddress ==
    [CSW |-> 0, TARlo |-> 4, TARhi |-> 8, DRW |-> 12,
     BD0 |-> 16, BD1 |-> 20, BD2 |-> 24, BD3 |-> 28, MBT |-> 32,
     BASEhi |-> 240, CFG |-> 244, BASElo |-> 248, IDR |-> 252]

\* DapAck::from
DapAck_from(ack) ==
    IF ack = 1 THEN "Wait"
    ELSE IF ack = 2 THEN "OkFault"
    ELSE "InvalidAck"

\* A setter of the bitfield! macro on a u32: bits lsb..msb of w are replaced
\* by the low bits of v, the other bits are kept.
bitfield_set(w, msb, lsb, v) ==
    LET old == u32_lsb_first(w)
        new == lsb_first(v, msb - lsb + 1)
    IN  u32_fold(Reverse([i \in 1..32 |->
                             IF i - 1 >= lsb /\ i - 1 <= msb
                             THEN new[i - lsb] ELSE old[i]]))

\* A getter of the bitfield! macro on a u32 (fields of at most 16 bits).
bitfield_get(w, msb, lsb) ==
    fold_shl(0, Reverse(SubSeq(u32_lsb_first(w), lsb + 1, msb + 1)), 65536)

\* A debug port with one MEM-AP behind it, as the Arm Debug Interface
\* describes them: CTRL/STAT and SELECT, the word a read has posted for the
\* next scan, CSW and TAR of the MEM-AP, and the words of memory that take
\* writes (cells, by the low word of their address).  The power-up
\* acknowledge bits of CTRL/STAT follow the request bits.
Device(ctrl) ==
    [kind |-> "dp", ctrlstat |-> ctrl, select |-> U32(0, 0),
     posted |-> U32(4660, 22136), csw |-> U32(35, 66),
     tarlo |-> U32(0, 0), tarhi |-> U32(0, 0), cells |-> <<>>]

\* The word of memory at the address whose low word is a: every word holds
\* its own address and keeps it, so that a read tells where it was made.
MemoryAt(a) == a

\* The word the MEM-AP reads at a: that of the cell, if a is one, else that
\* of the memory that keeps its words.
MemoryRead(d, a) == IF a \in DOMAIN d.cells THEN d.cells[a] ELSE MemoryAt(a)

\* The debug port after the MEM-AP wrote data at a: a cell takes the word,
\* the other words stay.
MemoryWrite(d, a, data) ==
    IF a \in DOMAIN d.cells THEN [d EXCEPT !.cells[a] = data] ELSE d

\* The low word of the address behind banked-data register n: the 16-byte
\* window TAR points into, word n.
Window(d, n) == U32(d.tarlo.hi, (d.tarlo.lo - (d.tarlo.lo % 16)) + 4 * n)

\* CTRL/STAT after data was written to it: CDBGPWRUPACK (29) and
\* CSYSPWRUPACK (31) report the requests (28, 30).
PoweredUp(data) ==
    bitfield_set(
        bitfield_set(data, 29, 29, bitfield_get(data, 28, 28)),
        31, 31, bitfield_get(data, 30, 30))

\* The value of DP register a (DPIDR, CTRL/STAT, SELECT; RDBUFF reads as 0).
DevDpRead(d, a) ==
    CASE a = 0 -> U32(27552, 9335)
      [] a = 1 -> d.ctrlstat
      [] a = 2 -> d.select
      [] OTHER -> U32(0, 0)

\* The debug port after data was written to DP register a.
DevDpWrite(d, a, data) ==
    CASE a = 1 -> [d EXCEPT !.ctrlstat = PoweredUp(data)]
      [] a = 2 -> [d EXCEPT !.select = data]
      [] OTHER -> d

\* The MEM-AP register an APACC with address bits a reaches: SELECT.APBANKSEL
\* chooses the bank of four.
DevApOffset(d, a) == 16 * bitfield_get(d.select, 7, 4) + 4 * a

\* The value of the MEM-AP register at offset off.
DevApRead(d, off) ==
    CASE off = 0 -> d.csw
      [] off = 4 -> d.tarlo
      [] off = 8 -> d.tarhi
      [] off = 12 -> MemoryRead(d, d.tarlo)
      [] off \in {16, 20, 24, 28}
            -> MemoryRead(d, Window(d, (off - 16) \div 4))
      [] OTHER -> U32(0, 0)

\* The debug port after data was written to the MEM-AP register at off.
DevApWrite(d, off, data) ==
    CASE off = 0 -> [d EXCEPT !.csw = data]
      [] off = 4 -> [d EXCEPT !.tarlo = data]
      [] off = 8 -> [d EXCEPT !.tarhi = data]
      [] off = 12 -> MemoryWrite(d, d.tarlo, data)
      [] off \in {16, 20, 24, 28}
            -> MemoryWrite(d, Window(d, (off - 16) \div 4), data)
      [] OTHER -> d

\* The debug port after a scan: a read posts the register's value for the
\* next scan, a write changes the register.
DevScan(d0, scan) ==
    IF Len(scan.bits) # 35 THEN d0
    ELSE
    Run(d0, LAMBDA d :
    Run(fold_shl(0, Reverse(SubSeq(scan.bits, 2, 3)), 4), LAMBDA a :
    Run(u32_fold(Reverse(SubSeq(scan.bits, 4, 35))), LAMBDA data :
        IF scan.ir = DPACC
        THEN IF scan.bits[1] THEN [d EXCEPT !.posted = DevDpRead(d, a)]
             ELSE DevDpWrite(d, a, data)
        ELSE IF scan.ir = APACC
        THEN IF scan.bits[1]
             THEN [d EXCEPT !.posted = DevApRead(d, DevApOffset(d, a))]
             ELSE DevApWrite(d, DevApOffset(d, a), data)
        ELSE d)))

\* What the chain drives on TDO during the next DR scan: the scripted
\* answer, or OK/FAULT and the word posted by the scan before.
ChainTdo(d) ==
    IF d.kind = "script" THEN Head(d.tdos)
    ELSE lsb_first(2, 3) \o u32_lsb_first(d.posted)

\* The TDI bits of the entries clocked while the chain is in state s.
ClockedIn(entries, s) ==
    LET In(e) == e.chain = s
    IN  TdiOf(SelectSeq(entries, In))

\* The debug port after a scan; a chain whose answers are scripted moves to
\* the next answer.
ChainScan(d, scan) ==
    IF d.kind = "script" THEN [d EXCEPT !.tdos = Tail(@)]
    ELSE DevScan(d, scan)

\* The scan a call has made, read off the adapter entries it clocked: the
\* instruction from the bits clocked in ShiftIR, the 35 bits clocked in
\* ShiftDR, the levels driven on TDO and what the call returned.
Scanned(j, r0, tdo) ==
    Run(r0, LAMBDA r :
    Run(SubSeq(r.out, Len(j.out) + 1, Len(r.out)), LAMBDA wire :
    Run([ir   |-> fold_shl(0, Reverse(ClockedIn(wire, "ShiftIR")), 256),
         bits |-> ClockedIn(wire, "ShiftDR"),
         tdo  |-> tdo,
         ret  |-> r.ret], LAMBDA scan :
        IF r.panic THEN r
        ELSE [r EXCEPT !.dev = ChainScan(j.dev, scan),
                       !.scans = Append(@, scan)])))

\* impl DapInterface for DAP: dpacc, handed to the TAP handle.
dap_dpacc(j0, data, a, RnW) ==
    Run(j0, LAMBDA j :
    IF j.panic THEN j
    ELSE Scanned(j, dpacc(j, data, a, RnW, j.ir_len, ChainTdo(j.dev)),
                 ChainTdo(j.dev)))

\* impl DapInterface for DAP: apacc, handed to the TAP handle.
dap_apacc(j0, data, a, RnW) ==
    Run(j0, LAMBDA j :
    IF j.panic THEN j
    ELSE Scanned(j, apacc(j, data, a, RnW, j.ir_len, ChainTdo(j.dev)),
                 ChainTdo(j.dev)))

\* DebugPort::dp_rdbuff_read
dp_rdbuff_read(j) ==
    Run(dap_dpacc(j, U32(0, 0), DpAddress.RDBUFF, TRUE), LAMBDA r :
        IF r.panic THEN r
        ELSE [r EXCEPT !.ret = <<DapAck_from(r.ret[1]), r.ret[2]>>])

\* The first component of the pair a call returned.
ack_of(r0) ==
    Run(r0, LAMBDA r : IF r.panic THEN r ELSE [r EXCEPT !.ret = r.ret[1]])

\* DebugPort::dp_abort_write
dp_abort_write(j) ==
    ack_of(dp_rdbuff_read(
        dap_dpacc(j, U32(0, 0), DpAddress.PDIDR_ABORT, FALSE)))

\* DpSelect with apbanksel one bit too high, over bit 8.
DpSelect_shifted(apsel, apbanksel, dpbanksel) ==
    bitfield_set(
        bitfield_set(
            bitfield_set(U32(0, 0), 31, 24, apsel),
            8, 5, apbanksel % 16),
        3, 0, dpbanksel % 16)

\* DpSelect built by dp_select_write: apsel 31..24, apbanksel 7..4,
\* dpbanksel 3..0.
DpSelect(apsel, apbanksel, dpbanksel) ==
    bitfield_set(
        bitfield_set(
            bitfield_set(U32(0, 0), 31, 24, apsel),
            7, 4, apbanksel % 16),
        3, 0, dpbanksel % 16)

\* DebugPort::dp_select_write
dp_select_write(j, apsel, apbanksel, dpbanksel) ==
    ack_of(dp_rdbuff_read(
        dap_dpacc(j, DpSelect(apsel, apbanksel, dpbanksel),
                  DpAddress.SELECT, FALSE)))

\* dp_ctrlstat returning what the scan of the access itself captured.
dp_ctrlstat_unposted(j, control, read) ==
    Run(dap_dpacc(j, control, DpAddress.CTRLSTAT, read), LAMBDA r :
        IF r.panic THEN r
        ELSE [r EXCEPT !.ret = <<DapAck_from(r.ret[1]), r.ret[2]>>])

\* DebugPort::dp_ctrlstat
dp_ctrlstat(j, control, read) ==
    dp_rdbuff_read(dap_dpacc(j, control, DpAddress.CTRLSTAT, read))

\* DebugPort::dp_ctrlstat_read
dp_ctrlstat_read(j) == dp_ctrlstat(j, U32(0, 0), TRUE)

\* DebugPort::dp_ctrlstat_write
dp_ctrlstat_write(j, control) == ack_of(dp_ctrlstat(j, control, FALSE))

\* DAP.apnum, set by DAP::new.
apnum == 0

\* memap leaving SELECT.APBANKSEL at 0 whatever the address.
memap_unbanked(j, address, data, read) ==
    LET a == (address % 16) \div 4
    IN  dp_rdbuff_read(
            dap_apacc(dp_select_write(j, apnum, 0, 0), data, a, read))

\* impl MemoryAccessPort for DAP: memap
memap(j, address, data, read) ==
    LET apbanksel == (address \div 16) % 16
        a         == (address % 16) \div 4
    IN  dp_rdbuff_read(
            dap_apacc(dp_select_write(j, apnum, apbanksel, 0), data, a, read))

\* A u64, kept as its two u32 halves.
U64(hi, lo) == [hi |-> hi, lo |-> lo]

\* A call of memap still to be made.
MemapCall(address, data, read) ==
    [address |-> address, data |-> data, read |-> read]

\* memap_tar_u64 accessing the low word before the high word.
memap_tar_u64_low_first(address, read) ==
    <<MemapCall(MemapAddress.TARlo, address.lo, read),
      MemapCall(MemapAddress.TARhi, address.hi, read)>>

\* MemoryAccessPort::memap_tar_u64, as the calls of memap it makes: TARhi
\* with the high word, then TARlo with the low word.
memap_tar_u64(address, read) ==
    <<MemapCall(MemapAddress.TARhi, address.hi, read),
      MemapCall(MemapAddress.TARlo, address.lo, read)>>

\* MemoryAccessPort::memap_tar_u64_read
memap_tar_u64_read == memap_tar_u64(U64(U32(0, 0), U32(0, 0)), TRUE)

\* MemoryAccessPort::memap_tar_u64_write: the write, then a read back for
\* the log.
memap_tar_u64_write(address) ==
    memap_tar_u64(address, FALSE) \o memap_tar_u64_read

\* MemoryAccessPort::memap_bd0 .. memap_bd3
memap_bd0(j, data, read) == memap(j, MemapAddress.BD0, data, read)
memap_bd1(j, data, read) == memap(j, MemapAddress.BD1, data, read)
memap_bd2(j, data, read) == memap(j, MemapAddress.BD2, data, read)
memap_bd3(j, data, read) == memap(j, MemapAddress.BD3, data, read)

(***************************************************************************)
(* AArch64Register (target/arm64.rs): register access through the MEM-AP   *)
(***************************************************************************)

\* register_u32: bd_base = offset & (!0x0f as u64)
bd_base(offset) == offset - (offset % 16)

\* register_u32: bd_index = (offset % 0x10) / 4
bd_index(offset) == (offset % 16) \div 4

\* x + n on a u64 for n below 2^16, the carry taken from half to half.
u64_add(x, n) ==
    LET s0 == x.lo.lo + n
        s1 == x.lo.hi + (s0 \div 65536)
        s2 == x.hi.lo + (s1 \div 65536)
        s3 == x.hi.hi + (s2 \div 65536)
    IN  U64(U32(s3 % 65536, s2 % 65536), U32(s1 % 65536, s0 % 65536))

\* register_u32: match bd_index { 0 => memap_bd0, .. 3 => memap_bd3,
\* _ => panic }
register_u32_bd(j, index, data, read) ==
    CASE index = 0 -> memap_bd0(j, data, read)
      [] index = 1 -> memap_bd1(j, data, read)
      [] index = 2 -> memap_bd2(j, data, read)
      [] index = 3 -> memap_bd3(j, data, read)
      [] OTHER -> [j EXCEPT !.panic = TRUE]

(***************************************************************************)
(* The JTAG core driven by one owner                                       *)
(***************************************************************************)

\* The context of a call made now by caller `by`; out and calls start empty
\* so that they hold what this call alone does.
Ctx(by) ==
    [state |-> state, chain |-> chain, out |-> <<>>, calls |-> <<>>,
     buf |-> <<>>, panic |-> FALSE, depth |-> 0, by |-> by, held |-> TRUE,
     ret |-> <<>>, ir_len |-> ir_len[1], dev |-> dev, scans |-> <<>>]

\* Store the context a call returns.
Commit(j0, o) ==
    \E j \in {j0} :
    /\ state' = j.state
    /\ chain' = j.chain
    /\ out' = j.out
    /\ calls' = j.calls
    /\ buf' = j.buf
    /\ panicked' = j.panic
    /\ op' = o
    /\ UNCHANGED tapvars
    /\ UNCHANGED portvars

\* What is recorded of every call: its name and the states it found.
Called(name) == [name |-> name, pre |-> state, prechain |-> chain]

\* No call is in flight and the last call's results have been taken.
Idle == [name |-> "idle"]

\* No debug port is modelled: the chain's TDO levels are inputs of the call.
NoDevice == [kind |-> "none"]

\* Jtag::new leaves the tracked state and the chain in Reset (its last
\* statement is change_state(Reset)).
Init ==
    /\ state = INITIAL_STATE
    /\ chain = "Reset"
    /\ out = <<>>
    /\ calls = <<>>
    /\ buf = <<>>
    /\ panicked = FALSE
    /\ op = Idle
    /\ lock = 0
    /\ pc = [h \in Handles |-> "none"]
    /\ loc = [h \in Handles |-> Idle]
    /\ dev = NoDevice
    /\ scans = <<>>
    /\ daplock = 0
    /\ ir_len = [h \in Handles |-> ExampleIrLen]

\* The owner can make a call: none is in flight and none has trapped.
Ready == op = Idle /\ ~panicked

DoWriteTms ==
    \E tms \in BoolSeqs(MaxTms) :
        /\ Ready
        /\ Commit(write_tms(Ctx(0), tms),
                  Called("write_tms") @@ [tms |-> tms])

DoRawWriteData ==
    \E tdi \in BoolSeqs(MaxLen), exit \in BOOLEAN :
        /\ Ready
        /\ Commit(raw_write_data(Ctx(0), tdi, exit),
                  Called("raw_write_data") @@ [data |-> tdi, exit |-> exit])

DoRawReadData ==
    \E data \in BoolSeqs(MaxLen), exit \in BOOLEAN :
        \E tdo \in [1..Len(data) -> BOOLEAN] :
            /\ Ready
            /\ Commit(raw_read_data([Ctx(0) EXCEPT !.buf = data], exit, tdo),
                      Called("raw_read_data")
                          @@ [data |-> data, exit |-> exit, tdo |-> tdo])

DoChangeState ==
    \E to \in JtagState :
        /\ Ready
        /\ Commit(change_state(Ctx(0), to), Called("change_state") @@ [to |-> to])

DoWriteIr ==
    \E bits \in BoolSeqs(MaxLen), exit \in BOOLEAN, reverse \in BOOLEAN :
        /\ Ready
        /\ Commit(write_ir(Ctx(0), bits, exit, reverse),
                  Called("write_ir")
                      @@ [data |-> bits, exit |-> exit, reverse |-> reverse])

DoReadWriteDr ==
    \E data \in BoolSeqs(MaxLen), exit \in BOOLEAN,
       rin \in BOOLEAN, rout \in BOOLEAN :
        \E tdo \in [1..Len(data) -> BOOLEAN] :
            /\ Ready
            /\ Commit(read_write_dr(Ctx(0), data, exit, rin, rout, tdo),
                      Called("read_write_dr")
                          @@ [data |-> data, exit |-> exit, rin |-> rin,
                              rout |-> rout, tdo |-> tdo])

\* The call returns to the owner, who takes its results; the Jtag object
\* keeps its tracked state and the chain its own.
Return ==
    /\ op # Idle
    /\ ~panicked
    /\ out' = <<>>
    /\ calls' = <<>>
    /\ buf' = <<>>
    /\ op' = Idle
    /\ UNCHANGED <<state, chain, panicked>>
    /\ UNCHANGED tapvars
    /\ UNCHANGED portvars

Next ==
    \/ DoWriteTms
    \/ DoRawWriteData
    \/ DoRawReadData
    \/ DoChangeState
    \/ DoWriteIr
    \/ DoReadWriteDr
    \/ Return

Spec == Init /\ [][Next]_vars

(***************************************************************************)
(* Several TAP handles sharing one JTAG core behind a spin Mutex           *)
(*                                                                         *)
(* Each handle belongs to one thread of control.  A handle operation is    *)
(* split where the core's lock lets another thread run: at lock(), and     *)
(* between the calls the core makes to the adapter.  A trap inside an      *)
(* operation unwinds: the guard is released and the handle is dropped.     *)
(***************************************************************************)

\* The instructions the handles' owners load in SpecTap.
TapInstructions == {DPACC, APACC, BYPASS}

\* spin::Mutex::lock returns at once without testing the flag.
LockFree_unguarded == TRUE

\* spin::Mutex::lock returns only when it finds the flag clear.
LockFree == lock = 0

\* No handle has a finished operation whose results are still to be taken.
NoneDone == \A g \in Handles : pc[g] # "done"

\* The locals of a handle's call.
Call(name, instruction, data, exit, rin, rout, path) ==
    [name |-> name, instruction |-> instruction, buf |-> data, exit |-> exit,
     rin |-> rin, rout |-> rout, path |-> path]

\* The context of a step of handle h: the core as it is, the log so far,
\* and the handle's buffer.
TCtx(h) ==
    [state |-> state, chain |-> chain, out |-> out, calls |-> calls,
     buf |-> loc[h].buf, panic |-> FALSE, depth |-> 0,
     by |-> [h |-> h, call |-> loc[h].name], held |-> lock = h,
     ret |-> <<>>, ir_len |-> ir_len[h], dev |-> dev, scans |-> <<>>]

\* Store what a step of handle h returns; a trap releases the guard while
\* unwinding, `unlock` is the guard going out of scope.
TapCommit(h, j0, next, unlock, step) ==
    \E j \in {j0} :
    /\ state' = j.state
    /\ chain' = j.chain
    /\ out' = j.out
    /\ calls' = j.calls
    /\ loc' = [loc EXCEPT ![h].buf = j.buf]
    /\ pc' = [pc EXCEPT ![h] = IF j.panic THEN "unwinding" ELSE next]
    /\ lock' = IF j.panic \/ unlock THEN 0 ELSE lock
    /\ op' = [name |-> step, h |-> h, pre |-> state, prechain |-> chain,
              first |-> Len(out) + 1, call |-> loc[h]]
    /\ UNCHANGED <<buf, panicked, ir_len>>
    /\ UNCHANGED portvars

\* lock() of a handle operation: the handle's locals are set up and the
\* guard is taken.
TapLock(h, next, l) ==
    /\ LockFree
    /\ lock' = h
    /\ pc' = [pc EXCEPT ![h] = next]
    /\ loc' = [loc EXCEPT ![h] = l]
    /\ op' = [name |-> "lock", h |-> h, pre |-> state, prechain |-> chain,
              first |-> Len(out) + 1, call |-> l]
    /\ UNCHANGED <<state, chain, out, calls, buf, panicked, ir_len>>
    /\ UNCHANGED portvars

\* The core is handed to the handles with the tracked state and the chain
\* in agreement: Jtag::new leaves both in Reset, and the owner may have
\* moved both with write_tms before wrapping the core in the Mutex.
TapInit ==
    /\ state \in JtagState
    /\ chain = state
    /\ out = <<>>
    /\ calls = <<>>
    /\ buf = <<>>
    /\ panicked = FALSE
    /\ op = Idle
    /\ lock = 0
    /\ pc = [h \in Handles |-> "idle"]
    /\ loc = [h \in Handles |-> Idle]
    /\ dev = NoDevice
    /\ scans = <<>>
    /\ daplock = 0
    /\ ir_len = [h \in Handles |-> ExampleIrLen]

TapWiLock ==
    \E h \in Handles, v \in TapInstructions :
        /\ pc[h] = "idle"
        /\ NoneDone
        /\ TapLock(h, "wi_move",
                   Call("write_instruction", v, lsb_first(v, ir_len[h]),
                        TRUE, FALSE, FALSE, "idle"))

TapWiMove ==
    \E h \in Handles :
        /\ pc[h] = "wi_move"
        /\ TapCommit(h, write_ir_move(TCtx(h)), "wi_shift", FALSE, "wi_move")

TapWiShift ==
    \E h \in Handles :
        /\ pc[h] = "wi_shift"
        /\ TapCommit(h, write_ir_shift(TCtx(h), loc[h].buf, TRUE, FALSE),
                     "wi_return", FALSE, "wi_shift")

TapWiReturn ==
    \E h \in Handles :
        /\ pc[h] = "wi_return"
        /\ TapCommit(h, write_ir_return(TCtx(h)), "done", TRUE,
                     "write_instruction")

TapRwLock ==
    \E h \in Handles, data \in BoolSeqs(MaxTapLen), exit \in BOOLEAN,
       rin \in BOOLEAN, rout \in BOOLEAN :
        /\ pc[h] = "idle"
        /\ NoneDone
        /\ TapLock(h, "rw_move",
                   Call("read_write_dr", 0, data, exit, rin, rout, "idle"))

TapRwMove ==
    \E h \in Handles :
        /\ pc[h] = "rw_move"
        /\ TapCommit(h, read_write_dr_move(TCtx(h)), "rw_shift", FALSE,
                     "rw_move")

TapRwShift ==
    \E h \in Handles :
        /\ pc[h] = "rw_shift"
        /\ \E tdo \in [1..Len(loc[h].buf) -> BOOLEAN] :
               TapCommit(h, read_write_dr_shift(TCtx(h), loc[h].buf,
                                                loc[h].exit, loc[h].rin,
                                                loc[h].rout, tdo),
                         "rw_return", FALSE, "rw_shift")

TapRwReturn ==
    \E h \in Handles :
        /\ pc[h] = "rw_return"
        /\ TapCommit(h, read_write_dr_return(TCtx(h)), "done", TRUE,
                     "read_write_dr")

\* The handle goes out of scope, at the end of its owner's use of it or
\* while its owner unwinds: Drop takes the lock.
TapDropLock ==
    \E h \in Handles :
        /\ pc[h] \in {"idle", "unwinding"}
        /\ NoneDone
        /\ TapLock(h, "drop_reset",
                   Call("drop", 0, <<>>, FALSE, FALSE, FALSE, pc[h]))

TapDropReset ==
    \E h \in Handles :
        /\ pc[h] = "drop_reset"
        /\ TapCommit(h, tap_drop(TCtx(h)), "done", TRUE, "drop")

\* The finished operation's results are taken: its handle is idle again,
\* or gone after a drop.
TapReturn ==
    /\ ~NoneDone
    /\ pc' = [g \in Handles |->
                 IF pc[g] # "done" THEN pc[g]
                 ELSE IF loc[g].name = "drop" THEN "dropped" ELSE "idle"]
    /\ loc' = [g \in Handles |-> IF pc[g] = "done" THEN Idle ELSE loc[g]]
    /\ out' = <<>>
    /\ calls' = <<>>
    /\ op' = Idle
    /\ UNCHANGED <<state, chain, buf, panicked, lock, ir_len>>
    /\ UNCHANGED portvars

NextTap ==
    \/ TapWiLock
    \/ TapWiMove
    \/ TapWiShift
    \/ TapWiReturn
    \/ TapRwLock
    \/ TapRwMove
    \/ TapRwShift
    \/ TapRwReturn
    \/ TapDropLock
    \/ TapDropReset
    \/ TapReturn

SpecTap == TapInit /\ [][NextTap]_vars

\* The core is handed to the handles as Jtag::new returns it: the tracked
\* state and the chain in Reset, and nothing but the handles uses it.
TapNewInit ==
    /\ TapInit
    /\ state = INITIAL_STATE

SpecTapNew == TapNewInit /\ [][NextTap]_vars

(***************************************************************************)
(* One TAP handle, used by one owner, on a core fresh from Jtag::new       *)
(***************************************************************************)

\* The 32-bit words written and captured.
DapWords == {U32(0, 0), U32(0, 1), U32(32768, 0), U32(57005, 48879)}

\* The register addresses passed as `a`: the four of a port, and one that
\* has a bit above them.
DapAddrs == {0, 1, 2, 6}

\* What the chain drives on the 35 clocks of a scan: three acknowledgement
\* bits, then a word from bit 0 up; every acknowledgement with one word,
\* and every word with one acknowledgement.
DapTdo ==
    { lsb_first(k, 3) \o u32_lsb_first(U32(57005, 48879)) : k \in 0..7 }
        \cup { lsb_first(2, 3) \o u32_lsb_first(w) : w \in DapWords }

\* The context of a call on the one handle.
DCtx(name) == [Ctx([h |-> 1, call |-> name]) EXCEPT !.held = TRUE]

\* Jtag::new, then TAP { jtag, ir_len } with an ir_len that fits the array
\* of write_instruction.
DapInit ==
    /\ state = INITIAL_STATE
    /\ chain = "Reset"
    /\ out = <<>>
    /\ calls = <<>>
    /\ buf = <<>>
    /\ panicked = FALSE
    /\ op = Idle
    /\ lock = 0
    /\ pc = [h \in Handles |-> "idle"]
    /\ loc = [h \in Handles |-> Idle]
    /\ dev = NoDevice
    /\ scans = <<>>
    /\ daplock = 0
    /\ \E n \in 1..MaxIrLen : ir_len = [h \in Handles |-> n]

DapWriteInstruction ==
    \E v \in 0..255 :
        /\ Ready
        /\ Commit(tap_write_instruction(DCtx("write_instruction"), v, ir_len[1]),
                  Called("write_instruction") @@ [instruction |-> v])

DapReadWriteDr ==
    \E data \in BoolSeqs(MaxTapLen), exit \in BOOLEAN,
       rin \in BOOLEAN, rout \in BOOLEAN :
        \E tdo \in [1..Len(data) -> BOOLEAN] :
            /\ Ready
            /\ Commit(tap_read_write_dr(DCtx("read_write_dr"), data, exit,
                                        rin, rout, tdo),
                      Called("tap_read_write_dr")
                          @@ [data |-> data, exit |-> exit, rin |-> rin,
                              rout |-> rout, tdo |-> tdo])

\* Commit for an access: the value returned is kept with the call.
DapAccess(name, j0, data, a, RnW, tdo) ==
    \E j \in {j0} :
        Commit(j, Called(name) @@ [data |-> data, a |-> a, RnW |-> RnW,
                                   tdo |-> tdo, ret |-> j.ret])

DapDpacc ==
    \E data \in DapWords, a \in DapAddrs, RnW \in BOOLEAN, tdo \in DapTdo :
        /\ Ready
        /\ DapAccess("dpacc",
                     dpacc(DCtx("dpacc"), data, a, RnW, ir_len[1], tdo),
                     data, a, RnW, tdo)

DapApacc ==
    \E data \in DapWords, a \in DapAddrs, RnW \in BOOLEAN, tdo \in DapTdo :
        /\ Ready
        /\ DapAccess("apacc",
                     apacc(DCtx("apacc"), data, a, RnW, ir_len[1], tdo),
                     data, a, RnW, tdo)

NextDap ==
    \/ DapWriteInstruction
    \/ DapReadWriteDr
    \/ DapDpacc
    \/ DapApacc
    \/ Return

SpecDap == DapInit /\ [][NextDap]_vars

(***************************************************************************)
(* One DAP over one TAP handle, used by one owner: DAP::new, then the      *)
(* operations of DebugPort and MemoryAccessPort.  The chain's answers are  *)
(* inputs: every scan is answered with an acknowledgement and a word       *)
(* chosen for it.                                                          *)
(***************************************************************************)

\* Most CTRL/STAT reads of the power-up loop of DAP::init in one run.
MaxPolls == 2

\* The TDO levels of a scan answered with the acknowledgement bits of k
\* (bit 0 of k on the first clock) and the word w.
Tdo(k, w) == lsb_first(k, 3) \o u32_lsb_first(w)

\* An answer no call should return from its last scan.
StaleTdo == Tdo(2, U32(4660, 22136))

\* The answers given to the scans of an operation.
PortTdo ==
    { Tdo(k, U32(57005, 48879)) : k \in {1, 2, 4} }
        \cup { Tdo(2, U32(32768, 1)) }

\* CTRL/STAT values answered to the reads of DAP::init: neither, one or
\* both of CSYSPWRUPACK (31) and CDBGPWRUPACK (29).
CtrlTdo ==
    { Tdo(2, U32(hi, 0)) : hi \in {0, 8192, 32768, 40960, 65535} }

\* Answers to a CTRL/STAT read of the power-up loop that are not
\* acknowledged OK/FAULT: TDO stuck high (acknowledgement 0b111, every data
\* bit 1), and WAIT with both acknowledge bits in the data.
RefusedTdo ==
    { Tdo(7, U32(65535, 65535)), Tdo(1, U32(40960, 0)) }

\* CSW values answered to the CSW read of DAP::init.
CswTdo == { Tdo(2, U32(35, 66)), Tdo(2, U32(32768 + 35, 64)) }

\* The context of a step of the DAP's owner when the chain answers with
\* tdos; the scans made so far are kept.
PCtx(name, tdos) ==
    [Ctx([h |-> 1, call |-> name]) EXCEPT
        !.scans = scans,
        !.dev = IF dev.kind = "dp" THEN dev
                ELSE [kind |-> "script", tdos |-> tdos]]

\* Store what a step of the DAP's owner returns.
PortCommit(j0, o, next, l) ==
    \E j \in {j0} :
    /\ state' = j.state
    /\ chain' = j.chain
    /\ out' = j.out
    /\ calls' = j.calls
    /\ buf' = j.buf
    /\ panicked' = j.panic
    /\ scans' = j.scans
    /\ op' = o @@ [ret |-> j.ret]
    /\ pc' = [pc EXCEPT ![1] = next]
    /\ loc' = [loc EXCEPT ![1] = l]
    /\ dev' = IF dev.kind = "dp" THEN j.dev ELSE dev
    /\ UNCHANGED <<lock, ir_len, daplock>>

\* Jtag::new, TAP { jtag, ir_len: 4 }, and DAP::new entered.
PortInit ==
    /\ state = INITIAL_STATE
    /\ chain = "Reset"
    /\ out = <<>>
    /\ calls = <<>>
    /\ buf = <<>>
    /\ panicked = FALSE
    /\ op = Idle
    /\ lock = 0
    /\ pc = [h \in Handles |-> IF h = 1 THEN "init_select" ELSE "none"]
    /\ loc = [h \in Handles |-> Idle]
    /\ ir_len = [h \in Handles |-> ExampleIrLen]
    /\ dev = NoDevice
    /\ scans = <<>>
    /\ daplock = 0

\* The locals of DAP::init: the polls made and the CSW value read.
InitLocals(polls, csw) == [name |-> "init", polls |-> polls, csw |-> csw]

\* DAP::init: self.dp_select_write(0, 0, 0)
InitSelect ==
    /\ pc[1] = "init_select"
    /\ PortCommit(dp_select_write(PCtx("init", <<StaleTdo, StaleTdo>>), 0, 0, 0),
                  [name |-> "init_select"], "init_read",
                  InitLocals(0, U32(0, 0)))

\* DAP::init: the first dp_ctrlstat_read
InitRead ==
    \E t \in CtrlTdo :
        /\ pc[1] = "init_read"
        /\ PortCommit(dp_ctrlstat_read(PCtx("init", <<StaleTdo, t>>)),
                      [name |-> "init_read"], "init_write1", loc[1])

\* The request without CSYSPWRUPREQ.
PowerUpRequest_debug_only(sticky) ==
    bitfield_set(bitfield_set(U32(0, 0), 28, 28, 1), 5, 5, sticky)

\* CtrlStatus(0) with CDBGPWRUPREQ (28), CSYSPWRUPREQ (30) set to 1 and
\* STICKYERR (5) set to sticky.
PowerUpRequest(sticky) ==
    bitfield_set(
        bitfield_set(
            bitfield_set(U32(0, 0), 28, 28, 1),
            30, 30, 1),
        5, 5, sticky)

\* DAP::init: dp_ctrlstat_write with STICKYERR = 1
InitWrite1 ==
    /\ pc[1] = "init_write1"
    /\ PortCommit(dp_ctrlstat_write(PCtx("init", <<StaleTdo, StaleTdo>>),
                                    PowerUpRequest(1)),
                  [name |-> "init_write1"], "init_write2", loc[1])

\* DAP::init: dp_ctrlstat_write with STICKYERR = 0
InitWrite2 ==
    /\ pc[1] = "init_write2"
    /\ PortCommit(dp_ctrlstat_write(PCtx("init", <<StaleTdo, StaleTdo>>),
                                    PowerUpRequest(0)),
                  [name |-> "init_write2"], "init_poll", loc[1])

\* The loop going round again only while neither acknowledge is reported.
PollAgain_either(ctrl) ==
    bitfield_get(ctrl, 29, 29) # 1 /\ bitfield_get(ctrl, 31, 31) # 1

\* The condition on which the power-up loop of DAP::init goes round again.
PollAgain(ctrl) ==
    bitfield_get(ctrl, 29, 29) # 1 \/ bitfield_get(ctrl, 31, 31) # 1

\* DAP::init: one round of the power-up loop.
InitPoll ==
    \E t \in CtrlTdo \cup RefusedTdo :
        /\ pc[1] = "init_poll"
        /\ loc[1].polls < MaxPolls
        /\ \E r \in {dp_ctrlstat_read(PCtx("init", <<StaleTdo, t>>))} :
               PortCommit(r, [name |-> "init_poll"],
                          IF PollAgain(r.ret[2]) THEN "init_poll"
                          ELSE "init_csw_read",
                          [loc[1] EXCEPT !.polls = @ + 1])

\* DAP::init: memap_csw_read
InitCswRead ==
    \E t \in CswTdo :
        /\ pc[1] = "init_csw_read"
        /\ \E r \in {memap(PCtx("init", <<StaleTdo, StaleTdo, StaleTdo, t>>),
                           MemapAddress.CSW, U32(0, 0), TRUE)} :
               PortCommit(r, [name |-> "init_csw_read"], "init_csw_write",
                          [loc[1] EXCEPT !.csw = r.ret[2]])

\* DAP::init: data.set_DbgSwEnable(1); memap_csw_write(data)
InitCswWrite ==
    /\ pc[1] = "init_csw_write"
    /\ PortCommit(
           ack_of(memap(PCtx("init", <<StaleTdo, StaleTdo, StaleTdo, StaleTdo>>),
                        MemapAddress.CSW,
                        bitfield_set(loc[1].csw, 31, 31, 1), FALSE)),
           [name |-> "init_csw_write"], "init_csw_check", loc[1])

\* DAP::init: the last memap_csw_read, after which DAP::new returns.
InitCswCheck ==
    \E t \in CswTdo :
        /\ pc[1] = "init_csw_check"
        /\ PortCommit(memap(PCtx("init", <<StaleTdo, StaleTdo, StaleTdo, t>>),
                            MemapAddress.CSW, U32(0, 0), TRUE),
                      [name |-> "init_done"], "ready", Idle)

\* The DAP's owner can call it: DAP::new has returned, no call is in
\* flight and none has trapped.
PortReady == pc[1] = "ready" /\ op = Idle /\ ~panicked

\* The context of a call of the DAP's owner: the scans are those of the
\* call alone.
OpCtx(name, tdos) == [PCtx(name, tdos) EXCEPT !.scans = <<>>]

PortRdbuffRead ==
    \E t \in PortTdo :
        /\ PortReady
        /\ PortCommit(dp_rdbuff_read(OpCtx("dp_rdbuff_read", <<t>>)),
                      [name |-> "dp_rdbuff_read"], "ready", loc[1])

PortAbortWrite ==
    \E t1 \in PortTdo, t2 \in PortTdo :
        /\ PortReady
        /\ PortCommit(dp_abort_write(OpCtx("dp_abort_write", <<t1, t2>>)),
                      [name |-> "dp_abort_write"], "ready", loc[1])

PortSelectWrite ==
    \E apsel \in {0, 1, 255}, apbanksel \in {0, 1, 15, 31},
       dpbanksel \in {0, 1, 15}, t \in PortTdo :
        /\ PortReady
        /\ PortCommit(dp_select_write(OpCtx("dp_select_write", <<StaleTdo, t>>),
                                      apsel, apbanksel, dpbanksel),
                      [name |-> "dp_select_write", apsel |-> apsel,
                       apbanksel |-> apbanksel, dpbanksel |-> dpbanksel],
                      "ready", loc[1])

PortCtrlstat ==
    \E control \in {U32(0, 0), U32(20480, 32)}, read \in BOOLEAN,
       t1 \in PortTdo, t2 \in PortTdo :
        /\ PortReady
        /\ PortCommit(dp_ctrlstat(OpCtx("dp_ctrlstat", <<t1, t2>>),
                                  control, read),
                      [name |-> "dp_ctrlstat", control |-> control,
                       read |-> read],
                      "ready", loc[1])

\* The names of MemapAddress.
MemapNames ==
    {"CSW", "TARlo", "TARhi", "DRW", "BD0", "BD1", "BD2", "BD3", "MBT",
     "BASEhi", "CFG", "BASElo", "IDR"}

PortMemap ==
    \E address \in MemapNames, data \in {U32(0, 0), U32(57005, 48879)},
       read \in BOOLEAN, t \in PortTdo :
        /\ PortReady
        /\ PortCommit(memap(OpCtx("memap", <<StaleTdo, StaleTdo, StaleTdo, t>>),
                            MemapAddress[address], data, read),
                      [name |-> "memap", address |-> address,
                       data |-> data, read |-> read],
                      "ready", loc[1])

\* The call returns to the DAP's owner, who takes its results.
PortReturn ==
    /\ pc[1] = "ready"
    /\ op # Idle
    /\ ~panicked
    /\ out' = <<>>
    /\ calls' = <<>>
    /\ buf' = <<>>
    /\ scans' = <<>>
    /\ op' = Idle
    /\ UNCHANGED <<state, chain, panicked, dev, daplock>>
    /\ UNCHANGED tapvars

NextPort ==
    \/ InitSelect
    \/ InitRead
    \/ InitWrite1
    \/ InitWrite2
    \/ InitPoll
    \/ InitCswRead
    \/ InitCswWrite
    \/ InitCswCheck
    \/ PortRdbuffRead
    \/ PortAbortWrite
    \/ PortSelectWrite
    \/ PortCtrlstat
    \/ PortMemap
    \/ PortReturn

SpecPort == PortInit /\ [][NextPort]_vars

(***************************************************************************)
(* The DAP built on a debug port with posted reads: what a scan captures   *)
(* is what the scan before it asked for.                                   *)
(***************************************************************************)

\* CTRL/STAT of the debug ports the DAP is built on: nothing set, or
\* STICKYERR (5) set.
PortDevices == {U32(0, 0), U32(0, 32)}

\* As PortInit, on a debug port.
DevInit ==
    /\ state = INITIAL_STATE
    /\ chain = "Reset"
    /\ out = <<>>
    /\ calls = <<>>
    /\ buf = <<>>
    /\ panicked = FALSE
    /\ op = Idle
    /\ lock = 0
    /\ pc = [h \in Handles |-> IF h = 1 THEN "init_select" ELSE "none"]
    /\ loc = [h \in Handles |-> Idle]
    /\ ir_len = [h \in Handles |-> ExampleIrLen]
    /\ dev \in { Device(c) : c \in PortDevices }
    /\ scans = <<>>
    /\ daplock = 0

\* The context of a call of the DAP's owner on the debug port.
DevCtx(name) == OpCtx(name, <<>>)

\* A caller's dpacc(0, X, read) followed by dp_rdbuff_read, for the DP
\* registers X other than RDBUFF.
CallDpRead ==
    \E x \in {"PDIDR_ABORT", "CTRLSTAT", "SELECT"} :
        /\ PortReady
        /\ PortCommit(dp_rdbuff_read(
                          dap_dpacc(DevCtx("dp_read"),
                                    U32(0, 0), DpAddress[x], TRUE)),
                      [name |-> "dp_read", x |-> x, before |-> dev],
                      "ready", loc[1])

\* CTRL/STAT values a caller writes: nothing, the debug power-up request,
\* both requests, both requests and STICKYERR.
DevControls == {U32(0, 0), U32(4096, 0), U32(20480, 0), U32(20480, 32)}

CallCtrlstat ==
    \E control \in DevControls, read \in BOOLEAN :
        /\ PortReady
        /\ PortCommit(dp_ctrlstat(DevCtx("dp_ctrlstat"), control, read),
                      [name |-> "dp_ctrlstat", control |-> control,
                       read |-> read, before |-> dev],
                      "ready", loc[1])

CallSelectWrite ==
    \E apbanksel \in {0, 1, 15} :
        /\ PortReady
        /\ PortCommit(dp_select_write(DevCtx("dp_select_write"),
                                      apnum, apbanksel, 0),
                      [name |-> "dp_select_write", apsel |-> apnum,
                       apbanksel |-> apbanksel, dpbanksel |-> 0],
                      "ready", loc[1])

\* The call returns to the DAP's owner.
DevReturn ==
    /\ pc[1] = "ready"
    /\ op # Idle
    /\ ~panicked
    /\ out' = <<>>
    /\ calls' = <<>>
    /\ buf' = <<>>
    /\ scans' = <<>>
    /\ op' = Idle
    /\ UNCHANGED <<state, chain, panicked, dev, daplock>>
    /\ UNCHANGED tapvars

NextDev ==
    \/ InitSelect
    \/ InitRead
    \/ InitWrite1
    \/ InitWrite2
    \/ InitPoll
    \/ InitCswRead
    \/ InitCswWrite
    \/ InitCswCheck
    \/ CallDpRead
    \/ CallCtrlstat
    \/ CallSelectWrite
    \/ DevReturn

SpecDev == DevInit /\ [][NextDev]_vars

(***************************************************************************)
(* Register access by the handles that share one DAP (A64Target and Cti    *)
(* hold `&Mutex<DAP>`), on the debug port DAP::new has set up              *)
(***************************************************************************)

\* The debug port when DAP::new has returned: the power-up requests made
\* and acknowledged, SELECT 0, DbgSwEnable set in CSW.
Constructed ==
    [Device(U32(61440, 0)) EXCEPT !.posted = U32(0, 0),
                                  !.csw = U32(32803, 66)]

\* A second Cti { dap: &dap, baseaddr: MEMAP_CTI_BASE_CORE0 } on the DAP of
\* the first.
SecondCti == 4

\* baseaddr of the handles: MEMAP_DEBUG_BASE_CORE0 for the A64Target,
\* MEMAP_CTI_BASE_CORE0 for the Cti and for the second Cti, and for any
\* further handle a block above 4 GiB that crosses a 64 KiB boundary.
Base(h) ==
    CASE h = 1 -> U64(U32(0, 0), U32(32769, 0))
      [] h = 2 -> U64(U32(0, 0), U32(32769, 32768))
      [] h = SecondCti -> U64(U32(0, 0), U32(32769, 32768))
      [] OTHER -> U64(U32(0, h), U32(32770, 63488))

\* The handles exist, the DAP is constructed and its lock is free.
RegInit ==
    /\ state = "RunIdle"
    /\ chain = "RunIdle"
    /\ out = <<>>
    /\ calls = <<>>
    /\ buf = <<>>
    /\ panicked = FALSE
    /\ op = Idle
    /\ lock = 0
    /\ pc = [h \in Handles |-> "idle"]
    /\ loc = [h \in Handles |-> Idle]
    /\ ir_len = [h \in Handles |-> ExampleIrLen]
    /\ dev = Constructed
    /\ scans = <<>>
    /\ daplock = 0

\* spin::Mutex::lock on the DAP returning without looking at the flag.
DapLockFree_unguarded == TRUE

\* spin::Mutex::lock on the DAP returns only when it finds the flag clear.
DapLockFree == daplock = 0

\* The context of a step handle h makes on the DAP; the scans made since
\* the lock was taken are kept.
RCtx(h, name) == [Ctx([h |-> h, call |-> name]) EXCEPT !.scans = scans]

\* Store what a step of handle h returns.
RegCommit(h, j0, o, next, l) ==
    \E j \in {j0} :
    /\ state' = j.state
    /\ chain' = j.chain
    /\ out' = j.out
    /\ calls' = j.calls
    /\ buf' = j.buf
    /\ panicked' = j.panic
    /\ scans' = j.scans
    /\ dev' = j.dev
    /\ op' = o @@ [ret |-> j.ret]
    /\ pc' = [pc EXCEPT ![h] = next]
    /\ loc' = [loc EXCEPT ![h] = l]
    /\ UNCHANGED <<lock, ir_len, daplock>>

\* The owner of handle h calls register_u32(offset, data, read).
RegCall(h, offset, data, read) ==
    /\ pc[h] = "idle"
    /\ ~panicked
    /\ pc' = [pc EXCEPT ![h] = "lock"]
    /\ loc' = [loc EXCEPT ![h] = [name |-> "register_u32", offset |-> offset,
                                  data |-> data, read |-> read]]
    /\ UNCHANGED <<state, chain, out, calls, buf, panicked, op, lock, ir_len>>
    /\ UNCHANGED portvars

\* register_u32: let mut dap = self.dap_lock(); memap_tar_u64_write is
\* entered with baseaddr + bd_base.
RegLock(h) ==
    /\ pc[h] = "lock"
    /\ ~panicked
    /\ DapLockFree
    /\ daplock' = h
    /\ pc' = [pc EXCEPT ![h] = "tar"]
    /\ loc' = [loc EXCEPT ![h] =
                  loc[h] @@ [todo |-> memap_tar_u64_write(
                                 u64_add(Base(h), bd_base(loc[h].offset)))]]
    /\ scans' = <<>>
    /\ out' = <<>>
    /\ calls' = <<>>
    /\ op' = [name |-> "dap_lock", h |-> h]
    /\ UNCHANGED <<state, chain, buf, panicked, lock, ir_len, dev>>

\* register_u32: the next call of memap made by memap_tar_u64_write
RegTar(h) ==
    /\ pc[h] = "tar"
    /\ ~panicked
    /\ \E c \in {Head(loc[h].todo)} :
           RegCommit(h, memap(RCtx(h, "register_u32"),
                              c.address, c.data, c.read),
                     [name |-> "tar_write", h |-> h],
                     IF Len(loc[h].todo) = 1 THEN "bd" ELSE "tar",
                     [loc[h] EXCEPT !.todo = Tail(@)])

\* register_u32: the access to the banked-data register
RegBd(h) ==
    /\ pc[h] = "bd"
    /\ ~panicked
    /\ \E r \in {register_u32_bd(RCtx(h, "register_u32"),
                                   bd_index(loc[h].offset),
                                   loc[h].data, loc[h].read)} :
           RegCommit(h, r, [name |-> "bd_access", h |-> h], "unlock",
                     loc[h] @@ [result |-> IF r.panic THEN <<>> ELSE r.ret[2]])

\* register_u32: drop(dap); result
RegUnlock(h) ==
    /\ pc[h] = "unlock"
    /\ ~panicked
    /\ daplock' = 0
    /\ pc' = [pc EXCEPT ![h] = "idle"]
    /\ loc' = [loc EXCEPT ![h] = Idle]
    /\ op' = [name |-> "register_u32", h |-> h, offset |-> loc[h].offset,
              data |-> loc[h].data, read |-> loc[h].read,
              ret |-> loc[h].result]
    /\ UNCHANGED <<state, chain, out, calls, buf, panicked, lock, ir_len,
                   dev, scans>>

\* The offsets one owner uses, over the 4 KiB block: the first word, EDSCR,
\* an offset that is not a multiple of 4, and one in the last window.
RegOffsets == {0, 136, 782, 4084}

\* One owner calls the handles one after the other, as the example programs
\* do: register_u32_read(offset) and register_u32_write(offset, data).
RegCallAlone ==
    \E h \in Handles, offset \in RegOffsets, read \in BOOLEAN :
        /\ \A g \in Handles : pc[g] = "idle"
        /\ RegCall(h, offset, IF read THEN U32(0, 0) ELSE U32(57005, 48879),
                   read)

NextReg ==
    \/ RegCallAlone
    \/ \E h \in Handles :
           \/ RegLock(h)
           \/ RegTar(h)
           \/ RegBd(h)
           \/ RegUnlock(h)

SpecReg == RegInit /\ [][NextReg]_vars

\* The owners of the handles call them whenever they like:
\* register_u32_read(EDSCR or CTITRIGOUTSTATUS) and
\* register_u32_write(EDRCR or CTIAPPPULSE, 1).
RegCallAny ==
    \E h \in Handles, read \in BOOLEAN :
        RegCall(h, IF h = 1 THEN (IF read THEN 136 ELSE 144)
                   ELSE (IF read THEN 308 ELSE 28),
                IF read THEN U32(0, 0) ELSE U32(0, 1), read)

NextShare ==
    \/ RegCallAny
    \/ \E h \in Handles :
           \/ RegLock(h)
           \/ RegTar(h)
           \/ RegBd(h)
           \/ RegUnlock(h)

SpecShare == RegInit /\ [][NextShare]_vars

(***************************************************************************)
(* Jtag::new: the IDCODE scan (Jtag::scan), then change_state(Reset)       *)
(***************************************************************************)

\* const TAP_DEVICE_MAX
TAP_DEVICE_MAX == 2

\* Jtag::scan: the buffer handed to read_write_dr, 0x000000ff from bit 0 up
\* in its first 32 places and false in the others.
scan_data ==
    u32_lsb_first(U32(0, 255)) \o [k \in 1..(TAP_DEVICE_MAX * 32 - 32) |-> FALSE]

\* The walk with the words folded without `.rev()`.
RECURSIVE scan_walk_msb_first(_, _, _)
scan_walk_msb_first(data, i, idcodes) ==
    IF i >= Len(data) THEN [idcodes |-> idcodes, panic |-> FALSE]
    ELSE IF data[i + 1]
    THEN IF i + 32 > Len(data) THEN [idcodes |-> idcodes, panic |-> TRUE]
         ELSE LET idcode == u32_fold(SubSeq(data, i + 1, i + 32))
              IN  IF idcode = U32(0, 255)
                  THEN [idcodes |-> idcodes, panic |-> FALSE]
                  ELSE IF Len(idcodes) >= TAP_DEVICE_MAX
                  THEN [idcodes |-> idcodes, panic |-> TRUE]
                  ELSE scan_walk_msb_first(data, i + 32, Append(idcodes, idcode))
    ELSE IF Len(idcodes) >= TAP_DEVICE_MAX
    THEN [idcodes |-> idcodes, panic |-> TRUE]
    ELSE scan_walk_msb_first(data, i + 1, Append(idcodes, U32(0, 0)))

\* Jtag::scan: the loop `while i < end` over the captured buffer.  idcodes
\* holds the entries that are Some, in order (its length is
\* tap_device_counter).  The slice data[i..i + 32] traps when it passes the
\* end of the buffer, and self.idcodes[tap_device_counter] traps when the
\* counter has reached TAP_DEVICE_MAX.
RECURSIVE scan_walk(_, _, _)
scan_walk(data, i, idcodes) ==
    IF i >= Len(data) THEN [idcodes |-> idcodes, panic |-> FALSE]
    ELSE IF data[i + 1]
    THEN IF i + 32 > Len(data) THEN [idcodes |-> idcodes, panic |-> TRUE]
         ELSE LET idcode == u32_fold(Reverse(SubSeq(data, i + 1, i + 32)))
              IN  IF idcode = U32(0, 255)
                  THEN [idcodes |-> idcodes, panic |-> FALSE]
                  ELSE IF Len(idcodes) >= TAP_DEVICE_MAX
                  THEN [idcodes |-> idcodes, panic |-> TRUE]
                  ELSE scan_walk(data, i + 32, Append(idcodes, idcode))
    ELSE IF Len(idcodes) >= TAP_DEVICE_MAX
    THEN [idcodes |-> idcodes, panic |-> TRUE]
    ELSE scan_walk(data, i + 1, Append(idcodes, U32(0, 0)))

\* The devices a chain is made of: one in BYPASS (a one-bit register
\* holding 0), or one with an IDCODE register holding the word.
ChainDevices ==
    {U32(0, 0), U32(11168, 5239), U32(19360, 1143), U32(4660, 22136)}

\* Longest chain scanned.
MaxChain == 3

\* The bits a device puts on TDO before what was shifted into it.
DeviceBits(d) == IF d = U32(0, 0) THEN <<FALSE>> ELSE u32_lsb_first(d)

\* The bits a chain puts on TDO, the device next to TDO first.
RECURSIVE ChainBits(_)
ChainBits(ds) ==
    IF ds = <<>> THEN <<>> ELSE DeviceBits(Head(ds)) \o ChainBits(Tail(ds))

\* What the scan captures: the registers of the chain, followed by what
\* the scan itself shifted in; or, with nothing driving TDO, one level.
ScanStreams ==
    { SubSeq(ChainBits(ds) \o scan_data, 1, Len(scan_data)) :
        ds \in UNION { [1..n -> ChainDevices] : n \in 0..MaxChain } }
    \cup { [k \in 1..Len(scan_data) |-> b] : b \in BOOLEAN }

\* Jtag::new entered: the state machine is new, no IDCODE is recorded, and
\* the chain's controller is in whatever state it was left in.
ScanInit ==
    /\ state = INITIAL_STATE
    /\ chain \in JtagState
    /\ out = <<>>
    /\ calls = <<>>
    /\ buf = <<>>
    /\ panicked = FALSE
    /\ op = Idle
    /\ lock = 0
    /\ pc = [h \in Handles |-> IF h = 1 THEN "scan_reset" ELSE "none"]
    /\ loc = [h \in Handles |->
                 IF h = 1 THEN [name |-> "new", data |-> scan_data,
                                idcodes |-> <<>>]
                 ELSE Idle]
    /\ ir_len = [h \in Handles |-> ExampleIrLen]
    /\ dev = NoDevice
    /\ scans = <<>>
    /\ daplock = 0

\* The context of a call made by Jtag::new.
NewCtx == Ctx([h |-> 1, call |-> "new"])

\* Jtag::scan: self.change_state(JS::Reset)
ScanReset ==
    /\ pc[1] = "scan_reset"
    /\ PortCommit(change_state(NewCtx, "Reset"),
                  Called("scan_reset"), "scan_move", loc[1])

\* Jtag::scan: self.change_state(JS::ShiftDR)
ScanMove ==
    /\ pc[1] = "scan_move"
    /\ ~panicked
    /\ PortCommit(change_state(NewCtx, "ShiftDR"),
                  Called("scan_move"), "scan_shift", loc[1])

\* Jtag::scan: self.read_write_dr(&mut data, true, false, false)
ScanShift ==
    \E tdo \in ScanStreams :
        /\ pc[1] = "scan_shift"
        /\ ~panicked
        /\ \E r \in {read_write_dr(NewCtx, loc[1].data, TRUE, FALSE, FALSE,
                                     tdo)} :
               PortCommit(r, Called("scan_shift"), "scan_walk",
                          [loc[1] EXCEPT !.data = r.buf])

\* Jtag::scan: the loop over the captured bits
ScanWalk ==
    /\ pc[1] = "scan_walk"
    /\ ~panicked
    /\ \E w \in {scan_walk(loc[1].data, 0, <<>>)} :
           /\ panicked' = w.panic
           /\ loc' = [loc EXCEPT ![1].idcodes = w.idcodes]
    /\ pc' = [pc EXCEPT ![1] = "new_reset"]
    /\ op' = [name |-> "scan_walk"]
    /\ out' = <<>>
    /\ calls' = <<>>
    /\ UNCHANGED <<state, chain, buf, lock, ir_len>>
    /\ UNCHANGED portvars

\* Jtag::new: jtag.change_state(JS::Reset); jtag
NewReset ==
    /\ pc[1] = "new_reset"
    /\ ~panicked
    /\ PortCommit(change_state(NewCtx, "Reset"),
                  Called("new"), "built", loc[1])

NextScan ==
    \/ ScanReset
    \/ ScanMove
    \/ ScanShift
    \/ ScanWalk
    \/ NewReset

SpecScan == ScanInit /\ [][NextScan]_vars

(***************************************************************************)
(* The methods of A64Target and Cti (arm64.rs): each is one call of        *)
(* register_u32, or a read followed by a write of what was read, changed   *)
(***************************************************************************)

\* Armv8DebugRegisterOffset
EDSCR == 136
OSLAR_EL1 == 768

\* CtiOffset
CTICONTROL == 0
CTIAPPPULSE == 28
CTIINENn == 32
CTIOUTENn == 160
CTIGATE == 320

\* v | (1 << n) and v & !(1 << n) on a 16-bit half.
half_or_bit(v, n) == IF (v \div (2 ^ n)) % 2 = 1 THEN v ELSE v + 2 ^ n
half_and_not_bit(v, n) == IF (v \div (2 ^ n)) % 2 = 1 THEN v - 2 ^ n ELSE v

\* status | (1 << channel) on a u32, for channel < 32.
u32_or_bit(w, n) ==
    IF n < 16 THEN U32(w.hi, half_or_bit(w.lo, n))
    ELSE U32(half_or_bit(w.hi, n - 16), w.lo)

\* The mask of channel_gate_disable and its like without the `!`:
\* status & (1 << channel).
u32_and_not_bit_unnegated(w, n) ==
    IF n < 16 THEN U32(0, w.lo - half_and_not_bit(w.lo, n))
    ELSE U32(w.hi - half_and_not_bit(w.hi, n - 16), 0)

\* status & !(1 << channel) on a u32, for channel < 32.
u32_and_not_bit(w, n) ==
    IF n < 16 THEN U32(w.hi, half_and_not_bit(w.lo, n))
    ELSE U32(half_and_not_bit(w.hi, n - 16), w.lo)

\* A call of a method of handle h: its name and its arguments (those the
\* method does not take are 0).
Method(h, name, trigger, channel, data) ==
    [h |-> h, name |-> name, trigger |-> trigger, channel |-> channel,
     data |-> data]

\* The methods that read a register and write it back.
RmwMethods ==
    {"channel_gate_enable", "channel_gate_disable",
     "input_trigger_enable", "input_trigger_disable",
     "output_trigger_enable", "output_trigger_disable"}

\* The methods that take a trigger number.
TriggerMethods ==
    {"input_trigger_enable", "input_trigger_disable",
     "output_trigger_enable", "output_trigger_disable"}

\* The offset a method hands to register_u32_read and register_u32_write.
method_offset(m) ==
    CASE m.name \in {"enable", "disable"} -> CTICONTROL
      [] m.name \in {"channel_gate_enable", "channel_gate_disable"} -> CTIGATE
      [] m.name \in {"input_trigger_enable", "input_trigger_disable"}
            -> CTIINENn + m.trigger * 4
      [] m.name \in {"output_trigger_enable", "output_trigger_disable"}
            -> CTIOUTENn + m.trigger * 4
      [] m.name = "generate_pulse" -> CTIAPPPULSE
      [] m.name = "oslar_write" -> OSLAR_EL1
      [] m.name \in {"edscr_read", "edscr_write"} -> EDSCR

\* The method's first call of register_u32 is a read.
method_reads(m) == m.name \in RmwMethods \cup {"edscr_read"}

\* The data a method hands to register_u32_write; status is what its read
\* returned, if it made one.
method_data(m, status) ==
    CASE m.name = "enable" -> U32(0, 1)
      [] m.name = "disable" -> U32(0, 0)
      [] m.name \in {"channel_gate_enable", "input_trigger_enable",
                     "output_trigger_enable"}
            -> u32_or_bit(status, m.channel)
      [] m.name \in {"channel_gate_disable", "input_trigger_disable",
                     "output_trigger_disable"}
            -> u32_and_not_bit(status, m.channel)
      [] m.name = "generate_pulse" -> u32_or_bit(U32(0, 0), m.channel)
      [] m.name \in {"oslar_write", "edscr_write"} -> m.data
      [] OTHER -> U32(0, 0)

\* The owner of handle m.h calls method m, which calls register_u32.
MethodCall(m) ==
    /\ pc[m.h] = "idle"
    /\ ~panicked
    /\ pc' = [pc EXCEPT ![m.h] = "lock"]
    /\ loc' = [loc EXCEPT ![m.h] =
                  [name |-> "register_u32", offset |-> method_offset(m),
                   data |-> IF method_reads(m) THEN U32(0, 0)
                            ELSE method_data(m, U32(0, 0)),
                   read |-> method_reads(m), method |-> m,
                   status |-> U32(0, 0)]]
    /\ UNCHANGED <<state, chain, out, calls, buf, panicked, op, lock, ir_len>>
    /\ UNCHANGED portvars

\* register_u32: drop(dap); result -- and the method goes on: after its read
\* a read-modify-write method calls register_u32_write, any other returns.
MethodNext(h) ==
    /\ pc[h] = "unlock"
    /\ ~panicked
    /\ daplock' = 0
    /\ op' = [name |-> "register_u32", h |-> h, offset |-> loc[h].offset,
              data |-> loc[h].data, read |-> loc[h].read,
              ret |-> loc[h].result]
    /\ IF loc[h].read /\ loc[h].method.name \in RmwMethods
       THEN /\ pc' = [pc EXCEPT ![h] = "lock"]
            /\ loc' = [loc EXCEPT ![h] =
                          [name |-> "register_u32", offset |-> loc[h].offset,
                           data |-> method_data(loc[h].method, loc[h].result),
                           read |-> FALSE, method |-> loc[h].method,
                           status |-> loc[h].result]]
       ELSE /\ pc' = [pc EXCEPT ![h] = "return"]
            /\ loc' = [loc EXCEPT ![h] =
                          [name |-> loc[h].method.name,
                           method |-> loc[h].method,
                           offset |-> loc[h].offset, data |-> loc[h].data,
                           read |-> loc[h].read, status |-> loc[h].status,
                           result |-> loc[h].result]]
    /\ UNCHANGED <<state, chain, out, calls, buf, panicked, lock, ir_len,
                   dev, scans>>

\* What is recorded of a method when it returns: its call, the offset it
\* used, what it read (status for a read-modify-write, result for a read)
\* and what it wrote.
Returned(h) ==
    [name |-> loc[h].name, h |-> h, method |-> loc[h].method,
     offset |-> loc[h].offset, data |-> loc[h].data, read |-> loc[h].read,
     status |-> loc[h].status, ret |-> loc[h].result]

\* The Cti handle of the example programs.
CtiHandle == 2

\* The trigger and channel numbers the owner of the Cti handle uses.
CtiTriggers == {0, 1, 7}
CtiChannels == {0, 6, 15, 16, 31}

\* The owner of the Cti handle calls one of its read-modify-write methods.
CtiCall ==
    \E name \in RmwMethods, channel \in CtiChannels, t \in CtiTriggers :
        /\ name \notin TriggerMethods => t = 0
        /\ op \in {Idle} \cup {o \in {op} : o.name \in RmwMethods}
        /\ MethodCall(Method(CtiHandle, name, t, channel, U32(0, 0)))

\* The method returns to the owner of the Cti handle.
CtiReturn ==
    /\ pc[CtiHandle] = "return"
    /\ ~panicked
    /\ pc' = [pc EXCEPT ![CtiHandle] = "idle"]
    /\ loc' = [loc EXCEPT ![CtiHandle] = Idle]
    /\ op' = Returned(CtiHandle)
    /\ UNCHANGED <<state, chain, out, calls, buf, panicked, lock, ir_len>>
    /\ UNCHANGED portvars

NextCti ==
    \/ CtiCall
    \/ RegLock(CtiHandle)
    \/ RegTar(CtiHandle)
    \/ RegBd(CtiHandle)
    \/ MethodNext(CtiHandle)
    \/ CtiReturn

SpecCti == RegInit /\ [][NextCti]_vars

(***************************************************************************)
(* main of examples/arm_debug_halt.rs from `target.oslar_write(0)` on:     *)
(* pc[0] is the statement main is at, loc[0] its locals                    *)
(***************************************************************************)

\* The A64Target handle of the example.
TargetHandle == 1

\* set_hde on a cleared word instead of on the value read.
set_hde_alone(edscr) == bitfield_set(U32(0, 0), 14, 14, 1)

\* edscr.set_hde(1)
set_hde(edscr) == bitfield_set(edscr, 14, 14, 1)

\* The statements of main that call the target, debug!'s arguments
\* included (the logger is set to LevelFilter::Debug); edscr is main's
\* local of that name.
HaltStatements(edscr) ==
    << Method(TargetHandle, "oslar_write", 0, 0, U32(0, 0)),
       Method(TargetHandle, "edscr_read", 0, 0, U32(0, 0)),
       Method(TargetHandle, "edscr_read", 0, 0, U32(0, 0)),
       Method(TargetHandle, "edscr_write", 0, 0, set_hde(edscr)),
       Method(TargetHandle, "edscr_read", 0, 0, U32(0, 0)),
       Method(CtiHandle, "enable", 0, 0, U32(0, 0)),
       Method(CtiHandle, "channel_gate_disable", 0, 0, U32(0, 0)),
       Method(CtiHandle, "output_trigger_enable", 0, 0, U32(0, 0)),
       Method(CtiHandle, "generate_pulse", 0, 0, U32(0, 0)),
       Method(TargetHandle, "edscr_read", 0, 0, U32(0, 0)) >>

\* The statements whose result main keeps in edscr.
HaltKeeps == {2, 10}

\* main has built the two handles on the Mutex of the DAP.
HaltInit ==
    /\ state = "RunIdle"
    /\ chain = "RunIdle"
    /\ out = <<>>
    /\ calls = <<>>
    /\ buf = <<>>
    /\ panicked = FALSE
    /\ op = Idle
    /\ lock = 0
    /\ pc = [h \in {0} \cup Handles |-> IF h = 0 THEN 1 ELSE "idle"]
    /\ loc = [h \in {0} \cup Handles |->
                 IF h = 0 THEN [name |-> "main", edscr |-> U32(0, 0),
                                log |-> <<>>]
                 ELSE Idle]
    /\ ir_len = [h \in Handles |-> ExampleIrLen]
    /\ dev = Constructed
    /\ scans = <<>>
    /\ daplock = 0

\* main calls the method of its next statement.
HaltCall ==
    /\ pc[0] \in 1..Len(HaltStatements(loc[0].edscr))
    /\ \A h \in Handles : pc[h] = "idle"
    /\ MethodCall(HaltStatements(loc[0].edscr)[pc[0]])

\* The method returns to main, which goes to its next statement.
HaltReturn ==
    \E h \in {TargetHandle, CtiHandle} :
        /\ pc[h] = "return"
        /\ ~panicked
        /\ pc' = [pc EXCEPT ![h] = "idle", ![0] = @ + 1]
        /\ loc' = [loc EXCEPT
                      ![h] = Idle,
                      ![0] = [@ EXCEPT
                                 !.edscr = IF pc[0] \in HaltKeeps
                                           THEN loc[h].result ELSE @,
                                 !.log = Append(@, Returned(h))]]
        /\ op' = Returned(h)
        /\ UNCHANGED <<state, chain, out, calls, buf, panicked, lock, ir_len>>
        /\ UNCHANGED portvars

NextHalt ==
    \/ HaltCall
    \/ \E h \in {TargetHandle, CtiHandle} :
           \/ RegLock(h)
           \/ RegTar(h)
           \/ RegBd(h)
           \/ MethodNext(h)
    \/ HaltReturn

SpecHalt == HaltInit /\ [][NextHalt]_vars

(***************************************************************************)
(* Two Cti handles on one DAP and one base, each owned by a thread that    *)
(* calls channel_gate_enable once; CTIGATE is a word that takes writes     *)
(***************************************************************************)

\* The two Cti handles and the channels their owners choose from.
RmwCallers == {CtiHandle, SecondCti}
RmwChannels(h) == IF h = CtiHandle THEN {0, 5} ELSE {1, 16}

\* The low word of the address of CTIGATE, and what it holds at first.
GateCell == u64_add(Base(CtiHandle), CTIGATE).lo
GateAtFirst == U32(32768, 8)

\* The handles exist, the DAP is constructed and its lock is free.
RmwInit ==
    /\ state = "RunIdle"
    /\ chain = "RunIdle"
    /\ out = <<>>
    /\ calls = <<>>
    /\ buf = <<>>
    /\ panicked = FALSE
    /\ op = Idle
    /\ lock = 0
    /\ pc = [h \in Handles \cup RmwCallers |-> "idle"]
    /\ loc = [h \in Handles \cup RmwCallers |-> Idle]
    /\ ir_len = [h \in Handles |-> ExampleIrLen]
    /\ dev = [Constructed EXCEPT !.cells = (GateCell :> GateAtFirst)]
    /\ scans = <<>>
    /\ daplock = 0

\* The owner of a Cti handle calls channel_gate_enable.
RmwCall ==
    \E h \in RmwCallers : \E channel \in RmwChannels(h) :
        MethodCall(Method(h, "channel_gate_enable", 0, channel, U32(0, 0)))

\* channel_gate_enable returns; the thread ends.
RmwReturn(h) ==
    /\ pc[h] = "return"
    /\ ~panicked
    /\ pc' = [pc EXCEPT ![h] = "done"]
    /\ loc' = [loc EXCEPT ![h] = Returned(h)]
    /\ op' = Returned(h)
    /\ UNCHANGED <<state, chain, out, calls, buf, panicked, lock, ir_len>>
    /\ UNCHANGED portvars

NextRmw ==
    \/ RmwCall
    \/ \E h \in RmwCallers :
           \/ RegLock(h)
           \/ RegTar(h)
           \/ RegBd(h)
           \/ MethodNext(h)
           \/ RmwReturn(h)

SpecRmw == RmwInit /\ [][NextRmw]_vars

(***************************************************************************)
(* One owner reading three neighbouring registers: register_u32_read(w),   *)
(* register_u32_read(w + 4), register_u32_read(w + 8) on one handle;       *)
(* pc[0] is the call the owner is at, loc[0] what it has seen              *)
(***************************************************************************)

\* The 16-byte windows the owner reads in: that of 0x080, the first of the
\* block, one of the CTI and the last of the block.
WindowBases == {128, 0, 320, 4080}

\* The offsets of the three calls in window w.
WindowOffsets(w) == <<w, w + 4, w + 8>>

\* The owner has a handle and has chosen its window.
WindowInit ==
    /\ state = "RunIdle"
    /\ chain = "RunIdle"
    /\ out = <<>>
    /\ calls = <<>>
    /\ buf = <<>>
    /\ panicked = FALSE
    /\ op = Idle
    /\ lock = 0
    /\ pc = [h \in {0} \cup Handles |-> IF h = 0 THEN 1 ELSE "idle"]
    /\ \E h \in Handles, w \in WindowBases :
           loc = [g \in {0} \cup Handles |->
                     IF g = 0 THEN [name |-> "owner", h |-> h, window |-> w,
                                    wire |-> <<>>, rets |-> <<>>]
                     ELSE Idle]
    /\ ir_len = [h \in Handles |-> ExampleIrLen]
    /\ dev = Constructed
    /\ scans = <<>>
    /\ daplock = 0

\* The owner makes its next call: register_u32_read(offset) is
\* register_u32(offset, 0, true).
WindowCall ==
    /\ pc[0] \in 1..3
    /\ RegCall(loc[0].h, WindowOffsets(loc[0].window)[pc[0]], U32(0, 0), TRUE)

\* register_u32: drop(dap); result -- and the owner, who has seen the scans
\* of the call on the wire, goes to its next call.
WindowReturn ==
    \E h \in {loc[0].h} :
        /\ pc[h] = "unlock"
        /\ ~panicked
        /\ daplock' = 0
        /\ pc' = [pc EXCEPT ![h] = "idle", ![0] = @ + 1]
        /\ loc' = [loc EXCEPT
                      ![h] = Idle,
                      ![0] = [@ EXCEPT !.wire = @ \o scans,
                                       !.rets = Append(@, loc[h].result)]]
        /\ op' = [name |-> "register_u32", h |-> h, offset |-> loc[h].offset,
                  data |-> loc[h].data, read |-> loc[h].read,
                  ret |-> loc[h].result]
        /\ UNCHANGED <<state, chain, out, calls, buf, panicked, lock, ir_len,
                       dev, scans>>

NextWindow ==
    \/ WindowCall
    \/ \E h \in Handles :
           \/ RegLock(h)
           \/ RegTar(h)
           \/ RegBd(h)
    \/ WindowReturn

SpecWindow == WindowInit /\ [][NextWindow]_vars

(***************************************************************************)
(* One owner calling register_u32 and register_u64 on its handles          *)
(***************************************************************************)

\* The offsets and the data the owner hands to register_u64: BD0, BD2 and
\* BD3 of a window, and EDSCR.
RegU64Offsets == {0, 8, 12, 136}
RegU64Data == {U64(U32(0, 0), U32(0, 0)), U64(U32(4660, 22136), U32(57005, 48879))}

\* AArch64Register::register_u64: todo!() is its first statement, so the
\* call traps before it takes the DAP lock; nothing after it is reached.
register_u64(h, offset, data, read) ==
    /\ pc[h] = "idle"
    /\ ~panicked
    /\ panicked' = TRUE
    /\ op' = [name |-> "register_u64", h |-> h, offset |-> offset,
              data |-> data, read |-> read, ret |-> <<>>]
    /\ UNCHANGED <<state, chain, out, calls, buf, lock, pc, loc, ir_len>>
    /\ UNCHANGED portvars

\* The owner calls register_u64_read(offset) or register_u64_write(offset,
\* data) when no call is in flight.
RegU64Call ==
    \E h \in Handles, offset \in RegU64Offsets, data \in RegU64Data,
       read \in BOOLEAN :
        /\ \A g \in Handles : pc[g] = "idle"
        /\ read => data = U64(U32(0, 0), U32(0, 0))
        /\ register_u64(h, offset, data, read)

NextU64 ==
    \/ RegCallAlone
    \/ \E h \in Handles :
           \/ RegLock(h)
           \/ RegTar(h)
           \/ RegBd(h)
           \/ RegUnlock(h)
    \/ RegU64Call

SpecU64 == RegInit /\ [][NextU64]_vars

(***************************************************************************)
(* TAP::abort on the one handle of a TAP                                   *)
(***************************************************************************)

\* let mut buffer = [false; 32]; buffer[0] = true
abort_buffer == [i \in 1..32 |-> i = 1]

\* TAP::abort: write_instruction(ABORT), then read_write_dr of the buffer
\* with exit, without reverse_input and with reverse_output.
abort(j, n, tdo) ==
    tap_read_write_dr(tap_write_instruction(j, ABORT, n), abort_buffer,
                      TRUE, FALSE, TRUE, tdo)

\* What the chain drives on the 32 clocks of the scan of abort.
AbortTdo ==
    {[i \in 1..32 |-> FALSE], [i \in 1..32 |-> TRUE]}
        \cup {u32_lsb_first(w) : w \in DapWords}

DapAbort ==
    \E tdo \in AbortTdo :
        /\ Ready
        /\ Commit(abort(DCtx("abort"), ir_len[1], tdo),
                  Called("abort") @@ [tdo |-> tdo])

NextAbort ==
    \/ DapWriteInstruction
    \/ DapAbort
    \/ Return

SpecAbort == DapInit /\ [][NextAbort]_vars

(***************************************************************************)
(* Two TAP handles on one core, each owned by a thread that makes dpacc    *)
(* and apacc calls and then lets its handle go.  write_instruction and     *)
(* read_write_dr each take the core's lock for themselves, so each is one  *)
(* step; the chain is one TAP whose instruction register is followed.      *)
(***************************************************************************)

\* A TAP with its instruction register: IDCODE is selected in
\* Test-Logic-Reset.
TapDevice == [kind |-> "tap", ir |-> IDCODE]

\* The places of the entries on which the chain arrives in state s.
Arrivals(entries, s) ==
    { i \in 1..Len(entries) : TapNext(entries[i].chain, entries[i].tms) = s }

\* The instruction register after the entries of one operation: what was
\* clocked in ShiftIR once the chain has passed Update-IR, IDCODE once it
\* has arrived in Test-Logic-Reset after that, else what it was.
IrAfter(ir, entries) ==
    LET resets  == Arrivals(entries, "Reset")
        updates == Arrivals(entries, "UpdateIR")
        Last(S) == CHOOSE i \in S : \A k \in S : k <= i
    IN  IF resets # {} /\ (updates = {} \/ Last(updates) < Last(resets))
        THEN IDCODE
        ELSE IF updates # {}
        THEN fold_shl(0, Reverse(ClockedIn(entries, "ShiftIR")), 256)
        ELSE ir

\* The accesses the owners make, and what the chain answers.
AccCalls ==
    { [instruction |-> i, data |-> d, a |-> 1, RnW |-> r] :
        i \in {DPACC, APACC}, d \in {U32(0, 0), U32(57005, 48879)},
        r \in BOOLEAN }
AccTdo == lsb_first(2, 3) \o u32_lsb_first(U32(4660, 22136))

\* The handles exist on a core fresh from Jtag::new.
AccInit ==
    /\ state = INITIAL_STATE
    /\ chain = "Reset"
    /\ out = <<>>
    /\ calls = <<>>
    /\ buf = <<>>
    /\ panicked = FALSE
    /\ op = Idle
    /\ lock = 0
    /\ pc = [h \in Handles |-> "idle"]
    /\ loc = [h \in Handles |-> Idle]
    /\ ir_len = [h \in Handles |-> ExampleIrLen]
    /\ dev = TapDevice
    /\ scans = <<>>
    /\ daplock = 0

\* Store what an operation of handle h has done between lock() and the
\* drop of the guard; active is the instruction the chain had during it.
AccCommit(h, j0, name, next, l) ==
    \E j \in {j0} :
    /\ state' = j.state
    /\ chain' = j.chain
    /\ out' = j.out
    /\ calls' = j.calls
    /\ buf' = j.buf
    /\ panicked' = j.panic
    /\ dev' = [dev EXCEPT !.ir = IrAfter(@, j.out)]
    /\ op' = [name |-> name, h |-> h, call |-> l, active |-> dev.ir,
              pre |-> state]
    /\ pc' = [pc EXCEPT ![h] = next]
    /\ loc' = [loc EXCEPT ![h] = l]
    /\ UNCHANGED <<lock, ir_len, scans, daplock>>

\* dpacc / apacc: self.write_instruction(Instruction::DPACC / APACC as u8)
AccWriteInstruction(h) ==
    \E c \in AccCalls :
        /\ pc[h] = "idle"
        /\ ~panicked
        /\ LockFree
        /\ AccCommit(h, tap_write_instruction(
                            Ctx([h |-> h, call |-> "write_instruction"]),
                            c.instruction, ir_len[h]),
                     "write_instruction", "loaded", c)

\* dpacc / apacc: self.acc(data, a, RnW), whose scan is made by
\* read_write_dr.
AccScan(h) ==
    /\ pc[h] = "loaded"
    /\ ~panicked
    /\ LockFree
    /\ AccCommit(h, acc(Ctx([h |-> h, call |-> "acc"]), loc[h].data,
                        loc[h].a, loc[h].RnW, AccTdo),
                 "acc", "idle", loc[h])

\* The handle goes out of scope: Drop for TAP.
AccDrop(h) ==
    /\ pc[h] = "idle"
    /\ ~panicked
    /\ LockFree
    /\ AccCommit(h, tap_drop(Ctx([h |-> h, call |-> "drop"])),
                 "drop", "dropped", Idle)

NextAcc ==
    \E h \in Handles :
        \/ AccWriteInstruction(h)
        \/ AccScan(h)
        \/ AccDrop(h)

SpecAcc == AccInit /\ [][NextAcc]_vars

(***************************************************************************)
(* The two locks: threads that own an A64Target or a Cti on one DAP call   *)
(* register_u32 and the methods of Cti; every lock() and every drop of a   *)
(* guard is a step, what is done under the locks is left to the other      *)
(* specifications.  pc[h] is where the thread of handle h is, loc[h] what  *)
(* it has still to do.                                                     *)
(***************************************************************************)

\* TAP::dpacc / apacc: write_instruction and the read_write_dr of acc, each
\* with its own lock() on the core.
TapOpsPerAccess == 2

\* DAP::memap: dp_select_write (a DPACC and the read of RDBUFF), the APACC
\* and dp_rdbuff_read.
AccessesPerMemap == 4

\* register_u32: the four calls of memap in memap_tar_u64_write and the one
\* of memap_bd<n>.
MemapsPerRegister == 5

\* The lock() calls on the core made under one lock() on the DAP.
TapOpsPerRegister == TapOpsPerAccess * AccessesPerMemap * MemapsPerRegister

\* The calls of register_u32 a method makes: two for a read-modify-write
\* method of Cti, one for the others and for register_u32 itself.
RegisterCalls(name) == IF name \in RmwMethods THEN 2 ELSE 1

\* The methods the threads call.
LockMethods ==
    {"register_u32", "edscr_read", "generate_pulse", "channel_gate_enable",
     "output_trigger_disable"}

\* The flag of the DAP's Mutex when the guard of handle h is kept.
DapGuardDropped_kept(h) == h

\* drop(dap): the flag of the DAP's Mutex is clear again.
DapGuardDropped(h) == 0

\* The handles exist on the constructed DAP; both locks are free.
LocksInit ==
    /\ RegInit

\* The thread of handle h calls a method.
LocksCall(h) ==
    \E name \in LockMethods :
        /\ pc[h] = "idle"
        /\ (name \in RmwMethods \cup {"generate_pulse"}) => h # TargetHandle
        /\ name = "edscr_read" => h = TargetHandle
        /\ pc' = [pc EXCEPT ![h] = "dap_lock"]
        /\ loc' = [loc EXCEPT ![h] = [name |-> name,
                                      calls |-> RegisterCalls(name),
                                      ops |-> TapOpsPerRegister]]
        /\ op' = [name |-> "call", h |-> h, method |-> name]
        /\ UNCHANGED <<state, chain, out, calls, buf, panicked, lock, ir_len>>
        /\ UNCHANGED portvars

\* register_u32: let mut dap = self.dap_lock()
LocksDapLock(h) ==
    /\ pc[h] = "dap_lock"
    /\ DapLockFree
    /\ daplock' = h
    /\ pc' = [pc EXCEPT ![h] = "tap_lock"]
    /\ loc' = [loc EXCEPT ![h].ops = TapOpsPerRegister]
    /\ op' = [name |-> "dap_lock", h |-> h, method |-> loc[h].name]
    /\ UNCHANGED <<state, chain, out, calls, buf, panicked, lock, ir_len,
                   dev, scans>>

\* TAP::write_instruction / read_write_dr: let mut jtag = self.jtag.lock()
LocksTapLock(h) ==
    /\ pc[h] = "tap_lock"
    /\ LockFree
    /\ lock' = h
    /\ pc' = [pc EXCEPT ![h] = "tap_op"]
    /\ op' = [name |-> "lock", h |-> h, method |-> loc[h].name]
    /\ UNCHANGED <<state, chain, out, calls, buf, panicked, loc, ir_len>>
    /\ UNCHANGED portvars

\* TAP::write_instruction / read_write_dr: the work on the core, then
\* drop(jtag); after the last of them register_u32 is at drop(dap).
LocksTapUnlock(h) ==
    /\ pc[h] = "tap_op"
    /\ lock' = 0
    /\ pc' = [pc EXCEPT ![h] = IF loc[h].ops = 1 THEN "dap_unlock"
                               ELSE "tap_lock"]
    /\ loc' = [loc EXCEPT ![h].ops = @ - 1]
    /\ op' = [name |-> "unlock", h |-> h, method |-> loc[h].name]
    /\ UNCHANGED <<state, chain, out, calls, buf, panicked, ir_len>>
    /\ UNCHANGED portvars

\* register_u32: drop(dap); result -- and the method calls register_u32
\* again or returns.
LocksDapUnlock(h) ==
    /\ pc[h] = "dap_unlock"
    /\ daplock' = DapGuardDropped(h)
    /\ pc' = [pc EXCEPT ![h] = IF loc[h].calls = 1 THEN "idle"
                               ELSE "dap_lock"]
    /\ loc' = [loc EXCEPT ![h] = IF loc[h].calls = 1 THEN Idle
                                 ELSE [loc[h] EXCEPT !.calls = @ - 1]]
    /\ op' = [name |-> "dap_unlock", h |-> h, method |-> loc[h].name]
    /\ UNCHANGED <<state, chain, out, calls, buf, panicked, lock, ir_len,
                   dev, scans>>

NextLocks ==
    \E h \in Handles :
        \/ LocksCall(h)
        \/ LocksDapLock(h)
        \/ LocksTapLock(h)
        \/ LocksTapUnlock(h)
        \/ LocksDapUnlock(h)

SpecLocks == LocksInit /\ [][NextLocks]_vars

(***************************************************************************)
(* Properties of the JTAG core, checked under Spec                         *)
(***************************************************************************)

FiveOnes == <<TRUE, TRUE, TRUE, TRUE, TRUE>>

\* The change_state requests made by the operation itself (not the nested
\* ones change_state makes on its own).
IsTop(c) == c.depth = 0
TopCalls == SelectSeq(calls, IsTop)
TopTargets == [i \in 1..Len(TopCalls) |-> TopCalls[i].to]

IsData(e) == e.kind # "tms"
DataOut == SelectSeq(out, IsData)

\* The shape of a shift operation's adapter stream: TMS-only entries, then
\* the n data entries clocked while the tracked state is `shift`, then
\* TMS-only entries; the request for `shift` precedes the data and the final
\* request for RunIdle follows it.
ShiftShape(shift, n) ==
    LET m == Len(TopCalls)
        k == TopCalls[m].at - n
    IN  /\ m >= 2
        /\ k >= 0
        /\ TopCalls[m - 1].at <= k
        /\ Len(out) >= k + n
        /\ \A i \in 1..Len(out) :
               IF i > k /\ i <= k + n
               THEN out[i].kind # "tms" /\ out[i].st = shift
               ELSE out[i].kind = "tms"

\* C1: a fresh machine is in Reset and every single TMS bit consumed in a
\* tracked state leads to the successor the standard IEEE 1149.1 TAP diagram
\* gives for that state and bit.
C1_TransitionIsStandard ==
    /\ INITIAL_STATE = "Reset"
    /\ (op.name = "write_tms" /\ Len(op.tms) = 1)
           => state = TapNext(op.pre, op.tms[1])

\* The pairs for which change_state defines a path.
DefinedPath(s1, s2) ==
    \/ s2 \in {"Reset", "RunIdle"}
    \/ s2 = s1
    \/ s1 \in {"Reset", "RunIdle"}
          /\ s2 \in {"CaptureDR", "ShiftDR", "CaptureIR", "ShiftIR"}
    \/ s1 = "Exit1DR" /\ s2 = "UpdateDR"
    \/ s1 = "Exit1IR" /\ s2 = "UpdateIR"

\* C2: change_state(s2) called with the tracked state s1 leaves the tracked
\* state equal to s2 for every pair (s1, s2) with a defined path.
C2_ChangeStateReachesTarget ==
    (op.name = "change_state" /\ DefinedPath(op.pre, op.to))
        => (~panicked /\ state = op.to)

C2_Witness ==
    /\ op.name = "change_state"
    /\ op.pre = "Reset"
    /\ op.to = "ShiftIR"
    /\ state = "ShiftIR"

\* C3: five consecutive TMS=1 cycles end in Reset from every tracked state,
\* and change_state(Reset) emits exactly those five bits and ends in Reset.
C3_FiveOnesReset ==
    /\ (op.name = "write_tms" /\ op.tms = FiveOnes) => state = "Reset"
    /\ (op.name = "change_state" /\ op.to = "Reset")
           => (TmsOf(out) = FiveOnes /\ state = "Reset")

C3_Witness ==
    /\ op.name = "change_state"
    /\ op.to = "Reset"
    /\ op.pre = "ShiftDR"
    /\ state = "Reset"

\* C4: after write_tms, raw_write_data or raw_read_data the tracked state is
\* the state a standard TAP reaches from the previously tracked state on the
\* TMS bits the call clocked to the adapter.
C4_TrackedFollowsClockedBits ==
    (op.name \in {"write_tms", "raw_write_data", "raw_read_data"} /\ ~panicked)
        => state = TapRun(op.pre, TmsOf(out))

\* C7: write_ir with a non-empty buffer requests RunIdle first unless the
\* tracked state is Reset, RunIdle or ShiftIR, then ShiftIR, shifts the
\* buffer in tracked state ShiftIR, then requests RunIdle; no request is
\* rejected and the tracked state ends as RunIdle.
C7_WriteIrSequence ==
    (op.name = "write_ir" /\ op.data # <<>>)
        => /\ ~panicked
           /\ state = "RunIdle"
           /\ TopTargets =
                  (IF op.pre \in {"Reset", "RunIdle", "ShiftIR"}
                   THEN <<>> ELSE <<"RunIdle">>) \o <<"ShiftIR", "RunIdle">>
           /\ TopCalls[1].from = op.pre
           /\ ShiftShape("ShiftIR", Len(op.data))
           /\ TdiOf(DataOut) =
                  (IF op.reverse THEN Reverse(op.data) ELSE op.data)
           /\ buf = op.data

C7_Witness ==
    /\ op.name = "write_ir"
    /\ op.pre = "PauseDR"
    /\ Len(op.data) = 2
    /\ ~op.exit
    /\ state = "RunIdle"

\* What a read_write_dr call that has returned has done.
ReadWriteDrEffect ==
    /\ ~panicked
    /\ state = "RunIdle"
    /\ TopTargets =
           (IF op.pre \in {"Reset", "RunIdle", "ShiftDR"}
            THEN <<>> ELSE <<"RunIdle">>) \o <<"ShiftDR", "RunIdle">>
    /\ ShiftShape("ShiftDR", Len(op.data))
    /\ TdiOf(DataOut) = (IF op.rin THEN Reverse(op.data) ELSE op.data)
    /\ \A k \in 1..Len(DataOut) : DataOut[k].tdo = op.tdo[k]
    /\ buf = (IF op.rout THEN Reverse(op.tdo) ELSE op.tdo)

\* C8 as stated: every read_write_dr call moves to ShiftDR, clocks the buffer
\* on TDI, replaces element k by the TDO bit of clock k and returns with the
\* tracked state RunIdle.
C8_ReadWriteDrAlways ==
    op.name = "read_write_dr" => ReadWriteDrEffect

(***************************************************************************)
(* Properties of the TAP handles, checked under SpecTap                    *)
(***************************************************************************)

\* The adapter entries the step just taken has clocked.
StepOut == SubSeq(out, op.first, Len(out))

\* C5: the drop of a TAP handle runs with the core's lock taken, clocks
\* five entries with TMS=1 and leaves the chain (and the tracked state) in
\* Reset, from every tracked state, when the handle goes out of scope
\* normally and when its owner unwinds from a trap inside an operation.
C5_DropResetsChain ==
    op.name = "drop"
        => /\ op.call.path \in {"idle", "unwinding"}
           /\ chain = "Reset"
           /\ state = "Reset"
           /\ TmsOf(StepOut) = FiveOnes
           /\ \A i \in 1..Len(StepOut) :
                  /\ StepOut[i].held
                  /\ StepOut[i].kind = "tms"
                  /\ StepOut[i].by = [h |-> op.h, call |-> "drop"]

C5_Witness ==
    /\ op.name = "drop"
    /\ op.call.path = "unwinding"
    /\ op.pre = "ShiftDR"
    /\ chain = "Reset"
    /\ Len(StepOut) = 5

\* The handles that are between the lock() and the unlock of an operation.
InOperation(h) ==
    pc[h] \in {"wi_move", "wi_shift", "wi_return",
               "rw_move", "rw_shift", "rw_return", "drop_reset"}

\* C6: a handle holds the lock from before the first entry of its operation
\* to after the last, every entry is clocked with the lock held by its
\* caller, and the entries of one operation are contiguous in the adapter
\* stream: no entry of another caller lies between two of them.
C6_OperationHoldsLock ==
    /\ \A h \in Handles : InOperation(h) => lock = h
    /\ \A i \in 1..Len(out) : out[i].held
    /\ \A i \in 1..Len(out) : \A k \in i..Len(out) :
           out[i].by = out[k].by
               => \A m \in i..k : out[m].by = out[i].by
    /\ op.name \in {"write_instruction", "read_write_dr", "drop"}
           => /\ lock = 0
              /\ \E i \in 1..Len(out) : out[i].by = [h |-> op.h, call |-> op.name]

\* A write_instruction of handle 2 completed after handle 1 trapped in the
\* middle of a scan: the stream holds entries of both.
C6_Witness ==
    /\ op.name = "write_instruction"
    /\ op.h = 2
    /\ pc[1] = "unwinding"
    /\ \E i \in 1..Len(out) : out[i].by.h = 1
    /\ \E i \in 1..Len(out) : out[i].by.h = 2

(***************************************************************************)
(* Properties of the TAP handle and the DAP scans, checked under SpecDap   *)
(***************************************************************************)

\* Bit k of the number v.
BitOf(v, k) == ((v \div (2 ^ k)) % 2) = 1

\* Bit k of a u32.
WordBit(w, k) == IF k < 16 THEN BitOf(w.lo, k) ELSE BitOf(w.hi, k - 16)

\* The entries clocked while the chain's TAP controller is in state s.
InIr(e) == e.chain = "ShiftIR"
InDr(e) == e.chain = "ShiftDR"
IrOut == SelectSeq(out, InIr)
DrOut == SelectSeq(out, InDr)

\* An instruction register load of the n low bits of v: n entries clocked
\* in ShiftIR, entry k + 1 carrying bit k of v on TDI, TMS set on the last
\* entry only.
IrLoad(v, n) ==
    /\ Len(IrOut) = n
    /\ \A k \in 0..(n - 1) :
           /\ IrOut[k + 1].tdi = BitOf(v, k)
           /\ IrOut[k + 1].tms = (k = n - 1)
           /\ IrOut[k + 1].kind = "write"

\* C9: for every ir_len in 1..8 and every 8-bit v, write_instruction(v)
\* clocks exactly ir_len entries while the chain is in ShiftIR; they carry
\* the bits of v from bit 0 up, and only the last has TMS=1.
C9_WriteInstructionBits ==
    op.name = "write_instruction"
        => /\ ~panicked
           /\ IrLoad(op.instruction, ir_len[1])
           /\ DrOut = <<>>

C9_Witness ==
    /\ op.name = "write_instruction"
    /\ op.instruction = 166
    /\ ir_len[1] = 8
    /\ TdiOf(IrOut) = <<FALSE, TRUE, TRUE, FALSE, FALSE, TRUE, FALSE, TRUE>>
    /\ state = "RunIdle"

\* The entries clocked in ShiftDR are consecutive, and every entry clocked
\* in ShiftIR comes before them.
OneScanAfterIr ==
    \E f \in 1..Len(out) :
        \A i \in 1..Len(out) :
            /\ InDr(out[i]) <=> (i >= f /\ i < f + Len(DrOut))
            /\ InIr(out[i]) => i < f

\* C10: a dpacc or apacc access clocks one DR scan of exactly 35 entries,
\* after an instruction register load of 0b1010 (dpacc) or 0b1011 (apacc):
\* entry 1 carries RnW, entries 2 and 3 the address bits 0 and 1, entries
\* 4..35 the data bits 0..31, and only the last entry has TMS=1.
C10_AccessScanLayout ==
    op.name \in {"dpacc", "apacc"}
        => /\ ~panicked
           /\ IrLoad(IF op.name = "dpacc" THEN 10 ELSE 11, ir_len[1])
           /\ Len(DrOut) = 35
           /\ DrOut[1].tdi = op.RnW
           /\ DrOut[2].tdi = BitOf(op.a, 0)
           /\ DrOut[3].tdi = BitOf(op.a, 1)
           /\ \A k \in 0..31 : DrOut[4 + k].tdi = WordBit(op.data, k)
           /\ \A k \in 1..35 : DrOut[k].tms = (k = 35)
           /\ OneScanAfterIr

C10_Witness ==
    /\ op.name = "apacc"
    /\ op.data = U32(57005, 48879)
    /\ op.a = 2
    /\ op.RnW
    /\ ir_len[1] = 4
    /\ TdiOf(IrOut) = <<TRUE, TRUE, FALSE, TRUE>>
    /\ Len(DrOut) = 35
    /\ state = "RunIdle"

(***************************************************************************)
(* Properties of the DAP layer, checked under SpecDap and SpecPort         *)
(***************************************************************************)

\* The acknowledgement ack[2:0] a scan carries when the bit captured on
\* clock k + 1 is ack[k].
AckCarried(tdo) ==
    (IF tdo[1] THEN 1 ELSE 0) + (IF tdo[2] THEN 2 ELSE 0)
        + (IF tdo[3] THEN 4 ELSE 0)

\* The meaning of an acknowledgement: 0b010 OK/FAULT, 0b001 WAIT, any other
\* value invalid.
AckMeaning(v) ==
    IF v = 2 THEN "OkFault" ELSE IF v = 1 THEN "Wait" ELSE "InvalidAck"

\* The last scan made.
LastScan == scans[Len(scans)]

\* C11: the acknowledgement dp_rdbuff_read returns is the meaning of the
\* 3-bit value whose bit 0 is the first captured bit of its scan, bit 1 the
\* second and bit 2 the third: 0b010 is OK/FAULT, 0b001 is WAIT, any other
\* value is invalid.
C11_AckOfCapturedBits ==
    op.name = "dp_rdbuff_read"
        => op.ret[1] = AckMeaning(AckCarried(LastScan.tdo))

\* C12: bit k of the word a dpacc or apacc returns is the TDO level captured
\* on clock 3 + k (counted from 0) of its 35-bit scan, for k in 0..31.
C12_ResultOfCapturedBits ==
    op.name \in {"dpacc", "apacc"}
        => /\ ~panicked
           /\ Len(op.tdo) = 35
           /\ \A k \in 0..31 : WordBit(op.ret[2], k) = op.tdo[4 + k]

C12_Witness ==
    /\ op.name = "dpacc"
    /\ op.tdo = <<FALSE, TRUE, FALSE>> \o u32_lsb_first(U32(32768, 0))
    /\ op.ret[2] = U32(32768, 0)
    /\ state = "RunIdle"

\* The operations of DebugPort and MemoryAccessPort that end with a read of
\* RDBUFF.
PortOps == {"dp_abort_write", "dp_select_write", "dp_ctrlstat", "memap"}

\* The scan is a DPACC read of RDBUFF: instruction 0b1010, RnW = 1, A = 0b11.
IsRdbuffRead(scan) ==
    /\ scan.ir = 10
    /\ Len(scan.bits) = 35
    /\ scan.bits[1]
    /\ scan.bits[2]
    /\ scan.bits[3]

\* The number whose bit k is the level tdo[from + k], for k in 0..(n - 1).
RECURSIVE Captured(_, _, _)
Captured(tdo, from, n) ==
    IF n = 0 THEN 0
    ELSE (IF tdo[from] THEN 1 ELSE 0) + 2 * Captured(tdo, from + 1, n - 1)

\* The word carried by the levels captured on clocks 3..34 of a scan.
CapturedWord(tdo) == U32(Captured(tdo, 20, 16), Captured(tdo, 4, 16))

\* The acknowledgement an operation returned.
ReturnedAck ==
    IF op.name \in {"dp_abort_write", "dp_select_write"} THEN op.ret
    ELSE op.ret[1]

\* C13: the last scan of dp_abort_write, dp_select_write, dp_ctrlstat (read
\* or write) and memap (read or write) is a DPACC read of RDBUFF, and the
\* acknowledgement and the data the operation returns are the ones that scan
\* captured, not the ones captured by the scan that requested the access.
C13_ReturnsRdbuffScan ==
    op.name \in PortOps
        => /\ ~panicked
           /\ Len(scans) >= 2
           /\ IsRdbuffRead(LastScan)
           /\ ReturnedAck = AckMeaning(AckCarried(LastScan.tdo))
           /\ op.name \in {"dp_ctrlstat", "memap"}
                  => op.ret[2] = CapturedWord(LastScan.tdo)

\* Whatever the order of the acknowledgement bits: the last scan is the
\* RDBUFF read, the one before is not, and the data returned is the word the
\* last scan captured.
RdbuffScanLastAndDataReturned ==
    op.name \in PortOps
        => /\ ~panicked
           /\ Len(scans) >= 2
           /\ IsRdbuffRead(LastScan)
           /\ ~IsRdbuffRead(scans[Len(scans) - 1])
           /\ op.name \in {"dp_ctrlstat", "memap"}
                  => op.ret[2] = CapturedWord(LastScan.tdo)

\* The value of DP register x of the debug port d.
DpRegister(d, x) ==
    CASE x = "CTRLSTAT" -> d.ctrlstat
      [] x = "SELECT" -> d.select
      [] OTHER -> DevDpRead(d, 0)

\* C14: against a debug port with posted reads, a DPACC read of DP register
\* X followed by a DPACC read of RDBUFF returns the value register X had,
\* and dp_ctrlstat_read returns the value of CTRL/STAT.
C14_PostedReadRoundTrip ==
    /\ (op.name = "dp_read" /\ dev.kind = "dp")
           => /\ ~panicked
              /\ op.ret[2] = DpRegister(op.before, op.x)
    /\ (op.name = "dp_ctrlstat" /\ op.read /\ dev.kind = "dp")
           => /\ ~panicked
              /\ op.ret[2] = op.before.ctrlstat
              /\ op.ret[2] = dev.ctrlstat

C14_Witness ==
    /\ op.name = "dp_ctrlstat"
    /\ op.read
    /\ dev.kind = "dp"
    /\ dev.select = U32(0, 240)
    /\ dev.ctrlstat = U32(61440, 0)
    /\ op.ret = <<"OkFault", U32(61440, 0)>>
    /\ Len(scans) = 2

\* What a scan clocked in: the direction bit, the two address bits and the
\* data word.
ScanRnW(scan) == scan.bits[1]
ScanA(scan) == Captured(scan.bits, 2, 2)
ScanData(scan) == CapturedWord(scan.bits)

\* The scan is a DPACC write of data to DP register a.
IsDpWrite(scan, a, data) ==
    /\ scan.ir = 10
    /\ Len(scan.bits) = 35
    /\ ~ScanRnW(scan)
    /\ ScanA(scan) = a
    /\ ScanData(scan) = data

\* The scan is an APACC with address bits a, the data and the direction.
IsApAccess(scan, a, data, read) ==
    /\ scan.ir = 11
    /\ Len(scan.bits) = 35
    /\ ScanRnW(scan) = read
    /\ ScanA(scan) = a
    /\ ScanData(scan) = data

\* The places of the scans that are not reads of RDBUFF.
Accesses == { i \in 1..Len(scans) : ~IsRdbuffRead(scans[i]) }

\* C15: for each of the 13 MemapAddress values, memap(offset, data, read)
\* makes, in this order, a write of SELECT with apsel = apnum (0), apbanksel
\* = (offset & 0xF0) >> 4 and dpbanksel = 0, an APACC with A = (offset &
\* 0x0F) >> 2, the data and RnW = read, and a DPACC read of RDBUFF whose
\* 32-bit result it returns; the write of SELECT is made on every call.
C15_MemapSequence ==
    op.name = "memap"
        => LET offset == MemapAddress[op.address]
           IN  /\ ~panicked
               /\ Len(scans) = 4
               /\ Accesses = {1, 3}
               /\ IsDpWrite(scans[1], 2,
                             U32(256 * apnum, 16 * ((offset \div 16) % 16)))
               /\ IsApAccess(scans[3], (offset % 16) \div 4, op.data, op.read)
               /\ IsRdbuffRead(scans[4])
               /\ op.ret[2] = CapturedWord(scans[4].tdo)

C15_Witness ==
    /\ op.name = "memap"
    /\ op.address = "IDR"
    /\ op.read
    /\ ScanData(scans[1]) = U32(0, 240)
    /\ ScanA(scans[3]) = 3
    /\ op.ret[2] = U32(57005, 48879)
    /\ state = "RunIdle"

\* C16: dp_select_write(apsel, apbanksel, dpbanksel) loads the instruction
\* 0b1010 and scans RnW = 0, A = 0b10 and DATA = (apsel << 24) |
\* ((apbanksel & 0xF) << 4) | (dpbanksel & 0xF), then scans a DPACC read of
\* RDBUFF; no field reaches into the bits of another.
C16_SelectWrite ==
    op.name = "dp_select_write"
        => /\ ~panicked
           /\ Len(scans) = 2
           /\ IsDpWrite(scans[1], 2,
                         U32(256 * op.apsel,
                             16 * (op.apbanksel % 16) + (op.dpbanksel % 16)))
           /\ IsRdbuffRead(scans[2])

C16_Witness ==
    /\ op.name = "dp_select_write"
    /\ op.apsel = 0
    /\ op.apbanksel = 15
    /\ op.dpbanksel = 0
    /\ scans[1].ir = 10
    /\ ScanData(scans[1]) = U32(0, 240)
    /\ state = "RunIdle"

\* The second example of C16: apsel = 1, apbanksel = 1, dpbanksel = 1 gives
\* DATA 0x01000011.
SelectOnes ==
    (op.name = "dp_select_write" /\ op.apsel = 1 /\ op.apbanksel = 1
        /\ op.dpbanksel = 1)
        => ScanData(scans[1]) = U32(256, 17)

\* The scan is a DPACC read of DP register a.
IsDpRead(scan, a) ==
    /\ scan.ir = 10
    /\ Len(scan.bits) = 35
    /\ ScanRnW(scan)
    /\ ScanA(scan) = a

\* When every access is followed by its read of RDBUFF: the i-th access
\* and the word its read of RDBUFF captured.
Access(i) == scans[2 * i - 1]
Answer(i) == CapturedWord(scans[2 * i].tdo)

\* Each scan at an odd place is an access, each at an even place a read of
\* RDBUFF.
AccessesAnswered ==
    /\ Len(scans) % 2 = 0
    /\ \A i \in 1..Len(scans) : IsRdbuffRead(scans[i]) <=> (i % 2 = 0)

\* The word w with bit 31 set and the other bits unchanged.
WithBit31(w) == U32((w.hi % 32768) + 32768, w.lo)

\* The CTRL/STAT reads of the power-up loop in a construction of n accesses:
\* 4 come before them and 6 after.
Polls(n) == n - 10

\* C17: when DAP::new returns it has made these accesses, in this order: a
\* write of SELECT with the three fields 0; a read of CTRL/STAT; a write of
\* CTRL/STAT with exactly CDBGPWRUPREQ, CSYSPWRUPREQ and STICKYERR set
\* (0x50000020); a write of CTRL/STAT with exactly the two requests set
\* (0x50000000); one or more reads of CTRL/STAT; a read of CSW of the MEM-AP
\* (SELECT write, APACC read of word 0); a write to CSW (SELECT write, APACC
\* write of word 0) of the value that read returned with bit 31 set and the
\* other bits unchanged.  One read of CSW follows the write.
C17_ConstructionOrder ==
    op.name = "init_done"
        => LET n == Len(scans) \div 2
               p == Polls(n)
           IN  /\ ~panicked
               /\ AccessesAnswered
               /\ p >= 1
               /\ IsDpWrite(Access(1), 2, U32(0, 0))
               /\ IsDpRead(Access(2), 1)
               /\ IsDpWrite(Access(3), 1, U32(20480, 32))
               /\ IsDpWrite(Access(4), 1, U32(20480, 0))
               /\ \A i \in 5..(4 + p) : IsDpRead(Access(i), 1)
               /\ IsDpWrite(Access(5 + p), 2, U32(0, 0))
               /\ IsApAccess(Access(6 + p), 0, U32(0, 0), TRUE)
               /\ IsDpWrite(Access(7 + p), 2, U32(0, 0))
               /\ IsApAccess(Access(8 + p), 0, WithBit31(Answer(6 + p)), FALSE)
               /\ IsDpWrite(Access(9 + p), 2, U32(0, 0))
               /\ IsApAccess(Access(10 + p), 0, U32(0, 0), TRUE)

C17_Witness ==
    /\ op.name = "init_done"
    /\ Len(scans) = 24
    /\ Answer(8) = U32(35, 66)
    /\ ScanData(Access(10)) = U32(32803, 66)
    /\ ~ScanRnW(Access(10))
    /\ state = "RunIdle"

\* The CTRL/STAT value reports CDBGPWRUPACK (29) and CSYSPWRUPACK (31)
\* together.
BothAcks(w) == WordBit(w, 29) /\ WordBit(w, 31)

LeftAfterSecondRead ==
    /\ pc[1] = "init_csw_read"
    /\ loc[1].polls = 2
    /\ op.ret[2] = U32(40960, 0)

\* When DAP::new has returned on a debug port, the port and the chain are
\* as the register access runs start them.
ConstructedAtReturn ==
    op.name = "init_done"
        => /\ dev = Constructed
           /\ state = "RunIdle"
           /\ chain = "RunIdle"
           /\ ~panicked

\* The low word of base + (o & ~0xF) + 4 * n, for a base whose low word
\* stays below 2^32 over its 4 KiB block.
WindowWord(base, o, n) ==
    LET sum == base.lo.lo + (o - (o % 16)) + 4 * n
    IN  U32(base.lo.hi + (sum \div 65536), sum % 65536)

\* C19: register_u32(o, data, read) first writes TAR of the MEM-AP with
\* baseaddr + (o & ~0xF), the high word to TARhi and then the low word to
\* TARlo, and after that (and after reading TAR back) accesses the
\* banked-data register BD[(o & 0xF) / 4] with the data and the direction
\* given; it returns the word of that access, which on a read is the word
\* of memory at baseaddr + (o & ~0xF) + 4 * ((o & 0xF) / 4).
C19_RegisterAccess ==
    op.name = "register_u32"
        => LET base == Base(op.h)
               o    == op.offset
               n    == (o % 16) \div 4
           IN  /\ ~panicked
               /\ Len(scans) = 20
               /\ AccessesAnswered
               /\ IsDpWrite(Access(1), 2, U32(0, 0))
               /\ IsApAccess(Access(2), 2, base.hi, FALSE)
               /\ IsDpWrite(Access(3), 2, U32(0, 0))
               /\ IsApAccess(Access(4), 1, WindowWord(base, o, 0), FALSE)
               /\ IsDpWrite(Access(5), 2, U32(0, 0))
               /\ IsApAccess(Access(6), 2, U32(0, 0), TRUE)
               /\ IsDpWrite(Access(7), 2, U32(0, 0))
               /\ IsApAccess(Access(8), 1, U32(0, 0), TRUE)
               /\ IsDpWrite(Access(9), 2, U32(0, 16))
               /\ IsApAccess(Access(10), n, op.data, op.read)
               /\ op.ret = Answer(10)
               /\ dev.tarhi = base.hi
               /\ dev.tarlo = WindowWord(base, o, 0)
               /\ op.read => op.ret = MemoryAt(WindowWord(base, o, n))

C19_Witness ==
    /\ op.name = "register_u32"
    /\ op.h = 2
    /\ op.offset = 782
    /\ op.read
    /\ ScanA(Access(10)) = 3
    /\ ScanData(Access(4)) = U32(32769, 33536)
    /\ op.ret = U32(32769, 33548)
    /\ state = "RunIdle"

\* Handle h is between taking the DAP lock and dropping it.
InRegisterAccess(h) == pc[h] \in {"tar", "bd", "unlock"}

\* C20: register_u32 holds the DAP lock from before its TAR write until
\* after its BD access: while a handle is between the two, the lock is its
\* own, and no other handle is; so the BD access of a call is made while
\* TAR selects the window of that call (its handle's baseaddr + (o & ~0xF))
\* and a read returns the word at that window's BD[(o & 0xF) / 4], whatever
\* the other handle, with its other baseaddr, is calling.
C20_LockSpansTarAndBd ==
    /\ [](\A h \in Handles :
             InRegisterAccess(h)
                 => /\ daplock = h
                    /\ \A g \in Handles \ {h} : ~InRegisterAccess(g))
    /\ [][\A h \in Handles :
             (pc[h] = "bd" /\ pc'[h] = "unlock")
                 => LET o == loc[h].offset
                        n == (o % 16) \div 4
                    IN  /\ daplock = h
                        /\ daplock' = h
                        /\ dev.tarhi = Base(h).hi
                        /\ dev.tarlo = WindowWord(Base(h), o, 0)
                        /\ dev'.tarlo = dev.tarlo
                        /\ loc[h].read
                               => loc'[h].result
                                      = MemoryAt(WindowWord(Base(h), o, n))]_vars

\* The CTI handle has read its register while the core handle, whose last
\* call left TAR on its own window, waits for the lock.
C20_Witness ==
    /\ pc[2] = "unlock"
    /\ pc[1] = "lock"
    /\ daplock = 2
    /\ loc[2].read
    /\ loc[2].offset = 308
    /\ loc[2].result = U32(32769, 33076)
    /\ dev.tarlo = U32(32769, 33072)
    /\ ~panicked

(***************************************************************************)
(* Properties of the IDCODE scan, checked under SpecScan                   *)
(***************************************************************************)

\* The first n devices a captured stream describes, walking it from place i
\* (counted from 0): a 1 starts a 32-bit word, least significant bit first,
\* which is the end when it is 0x000000FF and a device otherwise; a 0 is one
\* device in BYPASS, written 0.  A word that does not fit ends the walk.
RECURSIVE DescribedFrom(_, _, _)
DescribedFrom(bits, i, n) ==
    IF n = 0 \/ i >= Len(bits) THEN <<>>
    ELSE IF bits[i + 1]
    THEN IF i + 32 > Len(bits) THEN <<>>
         ELSE LET w == U32(Captured(bits, i + 17, 16), Captured(bits, i + 1, 16))
              IN  IF w = U32(0, 255) THEN <<>>
                  ELSE <<w>> \o DescribedFrom(bits, i + 32, n - 1)
    ELSE <<U32(0, 0)>> \o DescribedFrom(bits, i + 1, n - 1)

\* The devices a stream describes, as far as the first one beyond
\* TAP_DEVICE_MAX.
Described(bits) == DescribedFrom(bits, 0, TAP_DEVICE_MAX + 1)

\* The scan has walked the bits it captured.
Walked == op.name \in {"scan_walk", "new"}

\* The 64 bits captured and the IDCODEs recorded.
ScanCaptured == loc[1].data
Recorded == loc[1].idcodes

\* C21: the IDCODEs recorded are the devices the 64 captured bits describe
\* when walked from index 0 (a 1 starts a 32-bit little-endian word, which
\* ends the scan when it is 0x000000FF; a 0 is a BYPASS device recorded as
\* 0), in stream order from idcodes[0], and never more than TAP_DEVICE_MAX
\* of them: all of them when the scan returns, the first ones when it
\* traps.
C21_ScanWalk ==
    Walked
        => /\ Len(ScanCaptured) = 64
           /\ Len(Recorded) <= 2
           /\ Len(Recorded) <= Len(Described(ScanCaptured))
           /\ Recorded = SubSeq(Described(ScanCaptured), 1, Len(Recorded))
           /\ ~panicked => Recorded = Described(ScanCaptured)

C21_Witness ==
    /\ op.name = "new"
    /\ ~panicked
    /\ Recorded = <<U32(11168, 5239), U32(19360, 1143)>>
    /\ state = "Reset"
    /\ chain = "Reset"

\* The first 64 bits of a stream.
First64(bits) == SubSeq(bits, 1, 64)

\* The bits of a word from bit 0 up.
WordBits(w) == [k \in 1..32 |-> WordBit(w, k - 1)]

\* C22: when the bits captured are 0x12345678 followed by 0x000000FF, the
\* scan returns with exactly one IDCODE recorded, 0x12345678.
C22_OneDevice ==
    (Walked /\ ScanCaptured = WordBits(U32(4660, 22136)) \o WordBits(U32(0, 255)))
        => /\ ~panicked
           /\ Recorded = <<U32(4660, 22136)>>

\* C23: when the bits captured are one 0, then 0x2ba01477, then 0x000000FF
\* as far as it fits, the scan returns with idcodes[0] = 0 and idcodes[1] =
\* 0x2ba01477.
C23_BypassThenDevice ==
    (Walked
        /\ ScanCaptured = First64(<<FALSE>> \o WordBits(U32(11168, 5239))
                                      \o WordBits(U32(0, 255))))
        => /\ ~panicked
           /\ Recorded = <<U32(0, 0), U32(11168, 5239)>>

\* C24: when the bits captured describe more than TAP_DEVICE_MAX devices,
\* the scan records the first TAP_DEVICE_MAX of them and returns without
\* trapping.
C24_StopsAtLimit ==
    (Walked /\ Len(Described(ScanCaptured)) > 2)
        => /\ ~panicked
           /\ Recorded = SubSeq(Described(ScanCaptured), 1, 2)

(***************************************************************************)
(* Properties of change_state's paths, checked under Spec                  *)
(***************************************************************************)

\* The states of the standard diagram reached from the states of S by n
\* more TMS levels.
RECURSIVE After(_, _)
After(S, n) ==
    IF n = 0 THEN S
    ELSE After({TapNext(s, tms) : s \in S, tms \in BOOLEAN}, n - 1)

\* The length of a shortest TMS sequence from s1 to s2 on the standard
\* diagram.
Distance(s1, s2) ==
    CHOOSE n \in 0..16 :
        /\ s2 \in After({s1}, n)
        /\ \A m \in 0..(n - 1) : s2 \notin After({s1}, m)

\* C25: the TMS sequence change_state emits for a pair it supports leads
\* from the tracked state to the requested one on the standard diagram, and
\* no shorter TMS sequence does.
C25_ShortestPath ==
    (op.name = "change_state" /\ ~panicked)
        => /\ TapRun(op.pre, TmsOf(out)) = op.to
           /\ Len(out) = Distance(op.pre, op.to)

\* The sequences emitted do lead to the requested state on the standard
\* diagram.
EmittedPathArrives ==
    (op.name = "change_state" /\ ~panicked)
        => TapRun(op.pre, TmsOf(out)) = op.to

\* The sequences emitted for a request other than Reset are shortest, but
\* for those from Select-DR-Scan and Select-IR-Scan to RunIdle.
ShortestBesidesResetAndSelect ==
    (op.name = "change_state" /\ ~panicked /\ op.to # "Reset"
        /\ op.pre \notin {"SelectDRScan", "SelectIRScan"})
        => Len(out) = Distance(op.pre, op.to)

\* The four bits emitted from Select-DR-Scan to RunIdle, where three do.
SelectToRunIdle ==
    /\ op.name = "change_state"
    /\ op.pre = "SelectDRScan"
    /\ op.to = "RunIdle"
    /\ TmsOf(out) = <<FALSE, TRUE, TRUE, FALSE>>
    /\ TapRun(op.pre, <<TRUE, TRUE, FALSE>>) = op.to

\* C26: change_state(to) with to the tracked state and to # Reset emits no
\* TMS bit and leaves the tracked state and the chain as they were;
\* change_state(Reset) emits exactly five TMS=1 bits whatever the tracked
\* state, Reset included.
C26_NoChangeButReset ==
    /\ (op.name = "change_state" /\ op.to = op.pre /\ op.to # "Reset")
           => /\ out = <<>>
              /\ state = op.pre
              /\ chain = op.prechain
              /\ ~panicked
    /\ (op.name = "change_state" /\ op.to = "Reset")
           => /\ Len(out) = 5
              /\ \A i \in 1..Len(out) : out[i].tms /\ out[i].kind = "tms"
              /\ ~panicked

C26_Witness ==
    /\ op.name = "change_state"
    /\ op.to = "Reset"
    /\ op.pre = "Reset"
    /\ Len(out) = 5
    /\ state = "Reset"

\* The other half of C26: a request for the tracked state, here ShiftDR.
C26_NoChangeReached ==
    /\ op.name = "change_state"
    /\ op.to = "ShiftDR"
    /\ op.pre = "ShiftDR"
    /\ out = <<>>

\* The pairs the claim lists as outside the supported set.
Unsupported(from, to) ==
    /\ to \notin {"Reset", "RunIdle"}
    /\ to # from
    /\ \/ /\ from \in {"Reset", "RunIdle"}
          /\ to \notin {"CaptureDR", "ShiftDR", "CaptureIR", "ShiftIR"}
       \/ /\ from \notin {"Reset", "RunIdle"}
          /\ <<from, to>> \notin {<<"Exit1DR", "UpdateDR">>,
                                  <<"Exit1IR", "UpdateIR">>}

\* C27: change_state traps for the pairs (from, to) outside its supported
\* set, and for no other pair.
C27_TrapsExactlyUnsupported ==
    op.name = "change_state" => (panicked <=> Unsupported(op.pre, op.to))

C27_Witness ==
    /\ op.name = "change_state"
    /\ panicked
    /\ op.pre = "Exit2DR"
    /\ op.to = "UpdateDR"
    /\ out = <<>>

(***************************************************************************)
(* Acknowledgements of the scans of an operation, checked under SpecPort   *)
(***************************************************************************)

\* The operations of the port layer whose scans are answered freely here.
AckOps == {"dp_select_write", "dp_ctrlstat", "memap"}

\* What the chain acknowledged scan i of the operation with.
Acknowledged(i) == AckMeaning(AckCarried(scans[i].tdo))

\* The scans an operation makes when none is repeated: SELECT or CTRL/STAT
\* and RDBUFF; for memap, those of dp_select_write, the APACC and RDBUFF.
ScansOf(name) == IF name = "memap" THEN 4 ELSE 2

\* C28: when a scan made inside dp_select_write, dp_ctrlstat or memap is
\* acknowledged WAIT or with an invalid value, the operation returns that
\* acknowledgement to its caller, and no scan is made a second time.
C28_AcksSurface ==
    (op.name \in AckOps /\ ~panicked)
        => /\ \A i \in 1..Len(scans) :
                  Acknowledged(i) \in {"Wait", "InvalidAck"}
                      => ReturnedAck = Acknowledged(i)
           /\ Len(scans) = ScansOf(op.name)

\* No scan is made a second time.
NoScanRetried ==
    (op.name \in AckOps /\ ~panicked) => Len(scans) = ScansOf(op.name)

\* dp_ctrlstat returns OK/FAULT although its first scan was acknowledged
\* WAIT.
FirstAckDropped ==
    /\ op.name = "dp_ctrlstat"
    /\ ~panicked
    /\ Acknowledged(1) = "Wait"
    /\ Acknowledged(2) = "OkFault"
    /\ ReturnedAck = "OkFault"

(***************************************************************************)
(* The read-modify-write methods of Cti, checked under SpecCti             *)
(***************************************************************************)

\* The offset the text gives for a read-modify-write method: 0x140 for the
\* channel gate, 0x020 + trig * 4 for an input trigger and 0x0A0 + trig * 4
\* for an output trigger.
StatedOffset(m) ==
    CASE m.name \in {"channel_gate_enable", "channel_gate_disable"} -> 320
      [] m.name \in {"input_trigger_enable", "input_trigger_disable"}
            -> 32 + m.trigger * 4
      [] m.name \in {"output_trigger_enable", "output_trigger_disable"}
            -> 160 + m.trigger * 4

\* The method is one that sets the bit.
Sets(m) ==
    m.name \in {"channel_gate_enable", "input_trigger_enable",
                "output_trigger_enable"}

\* C29: for ch in 0..31 a read-modify-write method of Cti reads the
\* register at its offset (CTIGATE, 0x020 + trig * 4 or 0x0A0 + trig * 4)
\* and writes to that same offset the value just read with bit ch set
\* (enable) or cleared (disable): every other bit of the value written is
\* the bit read, and the write is the only one the method makes.
C29_RmwChangesOneBit ==
    (op.name \in RmwMethods /\ op.method.channel \in 0..31)
        => LET m    == op.method
               o    == StatedOffset(m)
               base == Base(op.h)
               n    == (o % 16) \div 4
           IN  /\ ~panicked
               /\ op.offset = o
               /\ ~op.read
               /\ op.status = MemoryAt(WindowWord(base, o, n))
               /\ \A k \in 0..31 :
                      WordBit(op.data, k) =
                          IF k = m.channel THEN Sets(m)
                          ELSE WordBit(op.status, k)
               /\ Len(scans) = 20
               /\ dev.tarlo = WindowWord(base, o, 0)
               /\ IsApAccess(Access(10), n, op.data, FALSE)

\* channel_gate_disable(6) has read 0x80018140 from CTIGATE and written
\* 0x80018100.
C29_Witness ==
    /\ op.name = "channel_gate_disable"
    /\ op.method.channel = 6
    /\ op.offset = 320
    /\ op.status = U32(32769, 33088)
    /\ op.data = U32(32769, 33024)
    /\ ScanData(Access(10)) = U32(32769, 33024)
    /\ ~panicked

\* output_trigger_enable(7, 31) has read 0x800180BC from offset 0x0BC, where
\* bit 31 is set already, and written the same value to BD[3].
C29_SetBitStays ==
    /\ op.name = "output_trigger_enable"
    /\ op.method.trigger = 7
    /\ op.method.channel = 31
    /\ op.offset = 188
    /\ op.data = op.status
    /\ ScanA(Access(10)) = 3

(***************************************************************************)
(* The halt sequence of examples/arm_debug_halt.rs, checked under SpecHalt *)
(***************************************************************************)

\* The method calls of main that have returned, in order, and those of
\* them that wrote a register.
HaltLog == loc[0].log
IsRegisterWrite(r) == ~r.read
HaltWrites == SelectSeq(HaltLog, IsRegisterWrite)

\* Entry r is a write of data to the register at offset o of handle h.
WroteTo(r, h, o, data) ==
    /\ r.h = h
    /\ r.offset = o
    /\ ~r.read
    /\ r.data = data

\* Word w is word v but for bit k, which is b.
SameButBit(w, v, k, b) ==
    \A i \in 0..31 : WordBit(w, i) = IF i = k THEN b ELSE WordBit(v, i)

\* main has passed its last statement.
HaltDone == pc[0] = Len(HaltStatements(loc[0].edscr)) + 1

\* C30: the register writes of the halt sequence are, in this order,
\* OSLAR_EL1 <- 0; EDSCR <- the value main read from EDSCR with bit 14 (HDE)
\* set and every other bit unchanged; CTICONTROL <- 1; CTIGATE <- the value
\* read from it with bit 0 cleared; CTIOUTEN0 <- the value read from it
\* with bit 0 set; CTIAPPPULSE <- 1; and the read of EDSCR whose STATUS main
\* looks at is made after the pulse write, as the last access of all.
C30_HaltOrder ==
    HaltDone
        => LET w    == HaltWrites
               last == HaltLog[Len(HaltLog)]
           IN  /\ ~panicked
               /\ Len(w) = 6
               /\ WroteTo(w[1], TargetHandle, 768, U32(0, 0))
               /\ HaltLog[1] = w[1]
               /\ HaltLog[2].name = "edscr_read"
               /\ HaltLog[2].ret = MemoryAt(WindowWord(Base(TargetHandle),
                                                       136, 2))
               /\ WroteTo(w[2], TargetHandle, 136, w[2].data)
               /\ SameButBit(w[2].data, HaltLog[2].ret, 14, TRUE)
               /\ WroteTo(w[3], CtiHandle, 0, U32(0, 1))
               /\ WroteTo(w[4], CtiHandle, 320, w[4].data)
               /\ w[4].status = MemoryAt(WindowWord(Base(CtiHandle), 320, 0))
               /\ SameButBit(w[4].data, w[4].status, 0, FALSE)
               /\ WroteTo(w[5], CtiHandle, 160, w[5].data)
               /\ w[5].status = MemoryAt(WindowWord(Base(CtiHandle), 160, 0))
               /\ SameButBit(w[5].data, w[5].status, 0, TRUE)
               /\ WroteTo(w[6], CtiHandle, 28, U32(0, 1))
               /\ HaltLog[Len(HaltLog) - 1] = w[6]
               /\ last.name = "edscr_read"
               /\ last.h = TargetHandle
               /\ last.offset = 136
               /\ last.read
               /\ loc[0].edscr = last.ret
               /\ op = last

\* main is done: EDSCR was read as 0x80010088 and written as 0x80014088,
\* CTIOUTEN0 read as 0x800180A0 and written as 0x800180A1, and the last
\* read of EDSCR has STATUS 0b001000.
C30_Witness ==
    /\ HaltDone
    /\ Len(HaltLog) = 10
    /\ HaltWrites[2].data = U32(32769, 16520)
    /\ HaltWrites[5].status = U32(32769, 32928)
    /\ HaltWrites[5].data = U32(32769, 32929)
    /\ bitfield_get(loc[0].edscr, 5, 0) = 8
    /\ daplock = 0
    /\ ~panicked

\* The writes made so far are in the order of C30 at every point of main:
\* the handles and offsets written are a prefix of the six.
HaltWriteOrder ==
    LET order == << <<TargetHandle, 768>>, <<TargetHandle, 136>>,
                    <<CtiHandle, 0>>, <<CtiHandle, 320>>,
                    <<CtiHandle, 160>>, <<CtiHandle, 28>> >>
    IN  /\ Len(HaltWrites) <= 6
        /\ \A i \in 1..Len(HaltWrites) :
               <<HaltWrites[i].h, HaltWrites[i].offset>> = order[i]

\* With the logger at LevelFilter::Debug the arguments of the two debug!
\* lines about HDE are evaluated: EDSCR is read three times before the
\* pulse write, once for the value written back and twice for the log.
ReadsBeforePulse ==
    /\ HaltDone
    /\ HaltLog[3].name = "edscr_read"
    /\ HaltLog[5].name = "edscr_read"
    /\ HaltLog[9].name = "generate_pulse"

(***************************************************************************)
(* Two threads in channel_gate_enable, checked under SpecRmw               *)
(***************************************************************************)

\* Handle h is in a read-modify-write method, its read made and its write
\* not yet.
BetweenReadAndWrite(h) ==
    /\ pc[h] \in {"lock", "tar", "bd", "unlock"}
    /\ loc[h].method.name \in RmwMethods
    /\ ~loc[h].read

\* The word CTIGATE holds.
Gate == dev.cells[GateCell]

\* Both threads have returned from channel_gate_enable.
BothDone == \A h \in RmwCallers : pc[h] = "done"

\* C31: a read-modify-write method of Cti holds the DAP lock from its
\* register read to its register write, and when two handles on one DAP
\* have each set a different bit of CTIGATE both bits are set (and the
\* other bits are as they were).
C31_RmwAtomic ==
    /\ \A h \in RmwCallers : BetweenReadAndWrite(h) => daplock = h
    /\ BothDone
           => \A k \in 0..31 :
                  WordBit(Gate, k) =
                      \/ WordBit(GateAtFirst, k)
                      \/ \E h \in RmwCallers : k = loc[h].method.channel

\* Both threads have returned from channel_gate_enable(0) and
\* channel_gate_enable(1), each wrote the value it read with its bit set,
\* and CTIGATE holds bit 1 without bit 0: the update of the first is lost.
LostUpdate ==
    /\ BothDone
    /\ loc[CtiHandle].method.channel = 0
    /\ loc[SecondCti].method.channel = 1
    /\ loc[CtiHandle].status = GateAtFirst
    /\ loc[SecondCti].status = GateAtFirst
    /\ Gate = U32(32768, 10)

\* Between the read and the write of one handle the DAP lock is free or
\* the other handle's: register_u32_read has dropped it.
LockDroppedBetween ==
    \E h \in RmwCallers :
        /\ BetweenReadAndWrite(h)
        /\ daplock # h
        /\ daplock # 0

\* When the calls do not overlap both bits are set.
SerialCallsKeepBoth ==
    (BothDone /\ loc[CtiHandle].status # loc[SecondCti].status)
        => \A h \in RmwCallers : WordBit(Gate, loc[h].method.channel)

(***************************************************************************)
(* Three reads in one window, checked under SpecWindow                     *)
(***************************************************************************)

\* The scans the owner's calls have put on the wire, and the places of
\* those that write TARlo of the MEM-AP (APACC, RnW = 0, A = 0b01).
Wire == loc[0].wire
IsTarWrite(scan) ==
    /\ scan.ir = 11
    /\ Len(scan.bits) = 35
    /\ ~ScanRnW(scan)
    /\ ScanA(scan) = 1
TarWrites == { i \in 1..Len(Wire) : IsTarWrite(Wire[i]) }

\* The places of the APACC reads made while SELECT chooses the bank of the
\* banked-data registers, in order of n: place 19 of the 20 scans of each
\* call.
BdRead(n) == Wire[20 * n + 19]

\* The owner's three calls have returned.
WindowDone == pc[0] = 4

\* The three calls read BD0, BD1 and BD2 in this order and return the words
\* of the window.
ReadsBd012 ==
    WindowDone
        => /\ Len(Wire) = 60
           /\ \A n \in 0..2 :
                  /\ IsApAccess(BdRead(n), n, U32(0, 0), TRUE)
                  /\ IsDpWrite(Wire[20 * n + 17], 2, U32(0, 16))
                  /\ loc[0].rets[n + 1] =
                         MemoryAt(WindowWord(Base(loc[0].h),
                                             loc[0].window, n))

\* C32: three consecutive calls register_u32_read(w), register_u32_read(w +
\* 4), register_u32_read(w + 8) in one 16-byte window (w = 0x080 among
\* them) write TAR once, with base + w, before the access to BD0, and then
\* access BD0, BD1 and BD2.
C32_OneTarWrite ==
    WindowDone
        => /\ ReadsBd012
           /\ Cardinality(TarWrites) = 1
           /\ \A i \in TarWrites :
                  /\ i < 19
                  /\ ScanData(Wire[i]) =
                         WindowWord(Base(loc[0].h), loc[0].window, 0)

\* The three calls for 0x080, 0x084 and 0x088 of the A64Target have
\* returned and TARlo was written three times with 0x80010080: at places 7,
\* 27 and 47 of the 60 scans.
ThreeTarWrites ==
    /\ WindowDone
    /\ loc[0].h = TargetHandle
    /\ loc[0].window = 128
    /\ TarWrites = {7, 27, 47}
    /\ \A i \in TarWrites : ScanData(Wire[i]) = U32(32769, 128)

(***************************************************************************)
(* register_u64, checked under SpecU64                                     *)
(***************************************************************************)

\* The access of register_u64 stays in the 16-byte window: bd_index is not
\* 3.
InWindow(offset) == (offset % 16) \div 4 < 3

\* C33: register_u64(offset, data, read) writes TAR and then makes two
\* consecutive accesses, to BD[bd_index] with the low word and to
\* BD[bd_index + 1] with the high word, and returns (high << 32) | low; it
\* is rejected only when the access straddles the window.
C33_RegisterU64 ==
    (op.name = "register_u64" /\ InWindow(op.offset))
        => LET n == (op.offset % 16) \div 4
           IN  /\ ~panicked
               /\ Len(scans) = 24
               /\ IsApAccess(scans[19], n, op.data.lo, op.read)
               /\ IsApAccess(scans[23], n + 1, op.data.hi, op.read)
               /\ op.read
                      => op.ret =
                             U64(MemoryAt(WindowWord(Base(op.h), op.offset,
                                                     n + 1)),
                                 MemoryAt(WindowWord(Base(op.h), op.offset,
                                                     n)))

\* register_u64_read(0) has trapped with no scan made and the DAP lock never
\* taken, after a register_u32 of the same handle had returned.
RegisterU64Traps ==
    /\ op.name = "register_u64"
    /\ op.offset = 0
    /\ op.read
    /\ panicked
    /\ daplock = 0
    /\ dev.tarlo = WindowWord(Base(op.h), 136, 0)

\* register_u64 never returns: every call of it ends in the trap, with the
\* port as it was.
RegisterU64AlwaysTraps ==
    [][op'.name = "register_u64"
           => panicked' /\ dev' = dev /\ scans' = scans /\ out' = out]_vars

(***************************************************************************)
(* TAP::abort, checked under SpecAbort                                     *)
(***************************************************************************)

\* The bits abort has clocked into the instruction register and into the
\* data register.
AbortIr == ClockedIn(out, "ShiftIR")
AbortDr == ClockedIn(out, "ShiftDR")

\* C34: abort() writes IR = ABORT (0b1000, in the ir_len bits of the
\* handle) and then makes one DR scan of the 35 bits of the JTAG-DP layout
\* with RnW = 0, A = 0b00 and DATA = 1, and ends in RunIdle.
C34_AbortScan ==
    op.name = "abort"
        => /\ ~panicked
           /\ AbortIr = lsb_first(ABORT, ir_len[1])
           /\ AbortDr = acc_bits(U32(0, 1), 0, FALSE)
           /\ state = "RunIdle"
           /\ chain = "RunIdle"

\* What abort does put on the wire: the instruction, then 32 bits of which
\* the first is 1 and the others 0; it ends in RunIdle.
AbortShifts32 ==
    op.name = "abort"
        => /\ ~panicked
           /\ AbortIr = lsb_first(ABORT, ir_len[1])
           /\ Len(AbortDr) = 32
           /\ \A i \in 1..32 : AbortDr[i] = (i = 1)
           /\ state = "RunIdle"
           /\ chain = "RunIdle"

\* abort on a handle with ir_len 4 has returned: IR took 0b1000 and the
\* data register 32 bits, the 1 in the place of RnW.
AbortOnWire ==
    /\ op.name = "abort"
    /\ ir_len[1] = 4
    /\ AbortIr = <<FALSE, FALSE, FALSE, TRUE>>
    /\ Len(AbortDr) = 32
    /\ AbortDr[1]
    /\ ~AbortDr[4]
    /\ state = "RunIdle"

(***************************************************************************)
(* The tracked state between handle operations, checked under SpecTapNew   *)
(***************************************************************************)

\* The tracked state is one in which operations begin and end.
AtRest == state \in {"Reset", "RunIdle"}

\* A handle's operation has trapped and its owner is unwinding, the guard
\* released and the handle not yet dropped.
Unwinding == \E h \in Handles : pc[h] = "unwinding"

\* C35: on a core fresh from Jtag::new (tracked state Reset) the tracked
\* state is Reset or RunIdle whenever the JTAG lock is free, and when an
\* operation of a handle has completed it is Reset after drop and RunIdle
\* after write_instruction and read_write_dr.
C35_AtRestWhenUnlocked ==
    /\ lock = 0 => AtRest
    /\ \A h \in Handles :
           pc[h] = "done"
               => state = IF loc[h].name = "drop" THEN "Reset" ELSE "RunIdle"

\* The same but for the time a trapped operation's owner unwinds: as long
\* as no operation traps, C35 holds.
AtRestUnlessUnwinding ==
    \/ Unwinding
    \/ C35_AtRestWhenUnlocked

\* read_write_dr(&mut [], true, ..) of handle 1 has trapped in the shift:
\* the guard is released, the tracked state is ShiftDR and handle 2 is
\* idle, free to take the lock.
UnlockedInShiftDR ==
    /\ pc[1] = "unwinding"
    /\ loc[1].name = "read_write_dr"
    /\ loc[1].buf = <<>>
    /\ loc[1].exit
    /\ lock = 0
    /\ state = "ShiftDR"
    /\ pc[2] = "idle"

\* Another handle's operation has started in ShiftDR, left there by the
\* trapped one.
StartedInShiftDR ==
    \E h \in Handles :
        /\ op.name = "lock"
        /\ op.h = h
        /\ op.call.name = "write_instruction"
        /\ op.pre = "ShiftDR"
        /\ \E g \in Handles \ {h} : pc[g] = "unwinding"

(***************************************************************************)
(* What a rejected change_state leaves behind, checked under Spec          *)
(***************************************************************************)

\* C36: a change_state request that is rejected traps at once: no TMS bit
\* has gone to the adapter and the tracked state is the one before the
\* call, for every rejected pair, from = Reset included.
C36_TrapsAtOnce ==
    (op.name = "change_state" /\ panicked)
        => /\ out = <<>>
           /\ state = op.pre
           /\ chain = op.prechain

\* The same for the requests made in a tracked state other than Reset.
TrapsAtOnceBesidesReset ==
    (op.name = "change_state" /\ panicked /\ op.pre # "Reset")
        => /\ out = <<>>
           /\ state = op.pre
           /\ chain = op.prechain

\* change_state(UpdateDR) from Reset has trapped, after one cycle with
\* TMS = 0 that took the tracked state and the chain to RunIdle.
TrapsAfterABit ==
    /\ op.name = "change_state"
    /\ panicked
    /\ op.pre = "Reset"
    /\ op.to = "UpdateDR"
    /\ Len(out) = 1
    /\ ~out[1].tms
    /\ state = "RunIdle"
    /\ chain = "RunIdle"

(***************************************************************************)
(* The cycles clocked in the Shift states, checked under Spec              *)
(***************************************************************************)

\* The Shift state of the register an operation scans.
ShiftOf(name) == IF name = "write_ir" THEN "ShiftIR" ELSE "ShiftDR"

\* The cycles of the operation that the chain was in state s for.
InState(e, s) == e.chain = s
CyclesIn(s) == Len(SelectSeq(out, LAMBDA e : InState(e, s)))

\* The operation is a scan that has returned, begun with the chain where
\* the tracked state says it is.
ScanReturned ==
    /\ op.name \in {"write_ir", "read_write_dr"}
    /\ ~panicked
    /\ op.prechain = op.pre

\* C37: write_ir and read_write_dr with a buffer of n bits clock exactly n
\* cycles while the chain is in ShiftIR / ShiftDR, with exit and without.
C37_ShiftsExactlyN ==
    ScanReturned => CyclesIn(ShiftOf(op.name)) = Len(op.data)

\* With exit the count is n for every buffer that does not trap.
ShiftsNWithExit ==
    (ScanReturned /\ op.exit) => CyclesIn(ShiftOf(op.name)) = Len(op.data)

\* Without exit the chain is still in the Shift state when change_state
\* clocks its first TMS = 1 towards RunIdle: one cycle more.
ShiftsOneMoreWithoutExit ==
    (ScanReturned /\ ~op.exit /\ op.pre \in {"Reset", "RunIdle"})
        => /\ CyclesIn(ShiftOf(op.name)) = Len(op.data) + 1
           /\ out[Len(out) - 2].chain = ShiftOf(op.name)
           /\ out[Len(out) - 2].kind = "tms"
           /\ out[Len(out) - 2].tms

\* read_write_dr of two bits without exit, from RunIdle, has returned: three
\* cycles were clocked in ShiftDR.
ThreeCyclesForTwoBits ==
    /\ ScanReturned
    /\ op.name = "read_write_dr"
    /\ op.pre = "RunIdle"
    /\ Len(op.data) = 2
    /\ ~op.exit
    /\ CyclesIn("ShiftDR") = 3
    /\ state = "RunIdle"
    /\ chain = "RunIdle"

(***************************************************************************)
(* The instruction a scan of dpacc / apacc meets, checked under SpecAcc    *)
(***************************************************************************)

\* C38: when the scan of a handle's dpacc or apacc runs, the chain's
\* instruction is the one that handle's write_instruction loaded: no IR
\* write and no drop of another handle has come between the two.
C38_ScanMeetsOwnInstruction ==
    op.name = "acc" => op.active = op.call.instruction

\* Handle 1 has made the scan of its dpacc while the instruction was APACC,
\* loaded by handle 2 after handle 1's write_instruction.
ScanUnderOtherInstruction ==
    /\ op.name = "acc"
    /\ op.h = 1
    /\ op.call.instruction = DPACC
    /\ op.active = APACC
    /\ pc[2] = "loaded"
    /\ loc[2].instruction = APACC

\* Handle 1 has made the scan of its dpacc after handle 2 was dropped: the
\* chain went through Test-Logic-Reset and the scan met IDCODE.
ScanAfterOtherDrop ==
    /\ op.name = "acc"
    /\ op.h = 1
    /\ op.call.instruction = DPACC
    /\ op.active = IDCODE
    /\ pc[2] = "dropped"

\* With no other handle at work between the two, the scan meets the
\* instruction loaded.
AloneMeetsOwnInstruction ==
    [][\A h \in Handles :
           (op.name = "write_instruction" /\ op.h = h /\ op'.name = "acc"
                /\ op'.h = h)
               => op'.active = op'.call.instruction]_vars

(***************************************************************************)
(* C39, checked under SpecLocks                                            *)
(***************************************************************************)

\* The thread of handle h spins on a lock that is taken.
Spins(h) ==
    \/ pc[h] = "dap_lock" /\ ~DapLockFree
    \/ pc[h] = "tap_lock" /\ ~LockFree

\* The thread of handle h is inside a call.
InCall(h) == pc[h] # "idle"

\* C39: the lock of the core is only ever held by the thread that holds
\* the lock of the DAP (the order is DAP, then core), no thread is at a
\* lock() of a lock it holds, and the threads never deadlock: the holder
\* of a lock never spins, and while a thread is inside a call some thread
\* inside a call can take its next step.
C39_LockOrderNoDeadlock ==
    /\ \A h \in Handles :
           /\ lock = h => daplock = h
           /\ pc[h] = "dap_lock" => (daplock # h /\ lock # h)
           /\ pc[h] = "tap_lock" => (lock # h /\ daplock = h)
           /\ (daplock = h \/ lock = h) => ~Spins(h)
    /\ (\E h \in Handles : InCall(h))
           => \E h \in Handles : InCall(h) /\ ~Spins(h)

\* Reached: one thread holds both locks in the middle of its second
\* register_u32 while another spins on the lock of the DAP.
C39_Witness ==
    \E h, g \in Handles :
        /\ h # g
        /\ daplock = h /\ lock = h
        /\ pc[h] = "tap_op"
        /\ loc[h].name \in RmwMethods /\ loc[h].calls = 1
        /\ loc[h].ops < TapOpsPerRegister
        /\ pc[g] = "dap_lock" /\ Spins(g)

\* Every lock() on the core is made under the lock of the DAP, and the
\* lock of the DAP is taken with the lock of the core free of the taker.
DapThenCore ==
    [][\A h \in Handles :
           /\ (lock # h /\ lock' = h) => (daplock = h /\ daplock' = h)
           /\ (daplock # h /\ daplock' = h) => (lock # h /\ lock' # h)]_vars

\* The lock of the DAP is given up with the lock of the core free.
CoreFreeAtDapUnlock ==
    [][\A h \in Handles : (daplock = h /\ daplock' # h) => lock = 0]_vars

(***************************************************************************)
(* C40, checked under SpecPort                                             *)
(***************************************************************************)

\* The power-up loop of DAP::init has just been left: the round made last
\* goes on to the CSW read.
PollLeft == op.name = "init_poll" /\ pc[1] = "init_csw_read" /\ ~panicked

\* The power-up loop has just gone round again.
PollRepeats == op.name = "init_poll" /\ pc[1] = "init_poll" /\ ~panicked

\* Bit n of the data of the last scan: the levels after the three
\* acknowledgement bits, bit 0 first.
LastDataBit(n) == LastScan.tdo[n + 4]

\* CDBGPWRUPACK (29) and CSYSPWRUPACK (31) are set in the data of the last
\* scan.
BothPowerUpAcks == LastDataBit(29) /\ LastDataBit(31)

\* C40: DAP::init leaves the power-up loop only after a CTRL/STAT read
\* whose answer is acknowledged OK/FAULT and has CDBGPWRUPACK and
\* CSYSPWRUPACK set; an answer acknowledged WAIT or with an invalid value
\* does not end the loop.
C40_PollEndsOnAcknowledged ==
    PollLeft
        => /\ Acknowledged(Len(scans)) = "OkFault"
           /\ BothPowerUpAcks

\* Reached: the loop is left on TDO stuck high.
PollLeftOnStuckHigh ==
    /\ PollLeft
    /\ \A i \in 1..35 : LastScan.tdo[i]
    /\ Acknowledged(Len(scans)) = "InvalidAck"

\* Reached: the loop is left on an answer acknowledged WAIT.
PollLeftOnWait ==
    /\ PollLeft
    /\ Acknowledged(Len(scans)) = "Wait"

\* The loop is left exactly on the data bits, whatever the acknowledgement:
\* left when both bits are set, repeated otherwise.
PollLooksAtDataOnly ==
    /\ PollLeft => BothPowerUpAcks
    /\ PollRepeats => ~BothPowerUpAcks

\* Reached: the loop is left on an answer acknowledged OK/FAULT with both
\* bits set.
PollLeftAcknowledged ==
    /\ PollLeft
    /\ Acknowledged(Len(scans)) = "OkFault"
    /\ BothPowerUpAcks
====
